---- MODULE Spec2Model ----
(***************************************************************************)
(* THREE.Octree (src/ThreeOctree.js): the tree handle, the object data     *)
(* (descriptors) and the octree nodes, with add / remove / update /        *)
(* search and the split / expand / merge / contract protocol.              *)
(*                                                                         *)
(* Lengths are exact integers.  overlapPct is the rational                 *)
(* overlapPct[1] / overlapPct[2]; a node whose radius or overlap would not *)
(* be an integer is outside the modelled grid and the handler that would   *)
(* create it ends with err = "bound" (the step is then not taken).         *)
(*                                                                         *)
(* A handler is one operator on a record st that holds the heap            *)
(*   st.objects, st.objectsData, st.root   the fields of THREE.Octree      *)
(*   st.nodes   address -> node record      (the OctreeNode objects)       *)
(*   st.data    address -> descriptor record (the OctreeObjectData)        *)
(*   st.err     "" or the reason the handler did not return                *)
(*   st.ret     the value returned by the last call                        *)
(* Every assignment of the source is applied to st in source order, so     *)
(* that aliasing (this.objects read while children are filled) is kept.    *)
(***************************************************************************)
EXTENDS Integers, Sequences, FiniteSets, TLC

VARIABLES objects, objectsData, root, nodes, data,
          depthMax, objectsThreshold, calls, objectsDeferred

vars == <<objects, objectsData, root, nodes, data,
          depthMax, objectsThreshold, calls, objectsDeferred>>

(***************************************************************************)
(* Bounds of the model                                                     *)
(***************************************************************************)
NumSources == 2
MaxData == 3
MaxCallDepth == 40
\* the longest objects list a node may be left with
MaxObjects == 4
\* the number of calls the host makes on one tree
MaxCalls == 4

Sources == 1..NumSources
DataIds == 1..MaxData

(***************************************************************************)
(* Program constants                                                       *)
(***************************************************************************)
INDEX_INSIDE_CROSS == -1
INDEX_OUTSIDE_OFFSET == 2
INDEX_OUTSIDE_POS_X == 0
INDEX_OUTSIDE_NEG_X == 1
INDEX_OUTSIDE_POS_Y == 2
INDEX_OUTSIDE_NEG_Y == 3
INDEX_OUTSIDE_POS_Z == 4
INDEX_OUTSIDE_NEG_Z == 5
FLAG_POS_X == 2 ^ (INDEX_OUTSIDE_POS_X + 1)
FLAG_NEG_X == 2 ^ (INDEX_OUTSIDE_NEG_X + 1)
FLAG_POS_Y == 2 ^ (INDEX_OUTSIDE_POS_Y + 1)
FLAG_NEG_Y == 2 ^ (INDEX_OUTSIDE_NEG_Y + 1)
FLAG_POS_Z == 2 ^ (INDEX_OUTSIDE_POS_Z + 1)
FLAG_NEG_Z == 2 ^ (INDEX_OUTSIDE_NEG_Z + 1)

\* INDEX_OUTSIDE_MAP: the direction of each outside index
INDEX_OUTSIDE_MAP ==
    [k \in 0..5 |->
        CASE k = INDEX_OUTSIDE_POS_X -> <<1, 0, 0>>
          [] k = INDEX_OUTSIDE_NEG_X -> <<-1, 0, 0>>
          [] k = INDEX_OUTSIDE_POS_Y -> <<0, 1, 0>>
          [] k = INDEX_OUTSIDE_NEG_Y -> <<0, -1, 0>>
          [] k = INDEX_OUTSIDE_POS_Z -> <<0, 0, 1>>
          [] OTHER -> <<0, 0, -1>>]

(***************************************************************************)
(* Configuration (the constructor's parameters)                            *)
(***************************************************************************)
\* overlapPct as numerator / denominator
overlapPct == <<1, 3>>
\* parameters.radius of the first root
RootRadius == 216

\* JavaScript's undefined, for a node reference and for an octant index
NoNode == 0
NoIndex == 8
\* objectData.faces === undefined (the whole object)
NoFace == 0
NoSource == 0

(***************************************************************************)
(* The host scene: where a source is and how large                         *)
(***************************************************************************)
\* world placements a host gives a source: position and bounding radius
Placements ==
    { [position |-> << 200,  200,  200>>, radius |-> 0],
      [position |-> <<-200, -200, -200>>, radius |-> 0],
      [position |-> << 200,  200,  200>>, radius |-> 100],
      [position |-> << 600,    0,    0>>, radius |-> 0] }

\* the query spheres tried: centre and radius
Queries ==
    { [position |-> <<0, 0, 0>>, radius |-> 50],
      [position |-> <<200, 200, 200>>, radius |-> 0],
      [position |-> <<310, 200, 200>>, radius |-> 20],
      [position |-> <<-200, -200, -210>>, radius |-> 10],
      [position |-> <<640, 40, 40>>, radius |-> 30] }

\* the rays tried: origin, direction and length (0: an infinite ray).  A
\* direction <<x, y, z, den>> is the vector (x, y, z) / den, of length 1
Rays ==
    { [position |-> <<-300, 200, 200>>, direction |-> <<1, 0, 0, 1>>, radius |-> 0],
      [position |-> <<0, 0, 600>>, direction |-> <<0, 0, -1, 1>>, radius |-> 512],
      [position |-> <<176, 121, 121>>, direction |-> <<1, 2, 2, 3>>, radius |-> 360] }

\* geometry.faces of a source: the centroid of each face, relative to the
\* object, and the face's bounding radius
FacesOf(s) ==
    IF s = 1
    THEN << [centroid |-> << 40,  40,  40>>, radius |-> 10],
            [centroid |-> <<-400, -400, -400>>, radius |-> 10] >>
    ELSE << >>

(***************************************************************************)
(* Arithmetic and array helpers                                            *)
(***************************************************************************)
\* a function value written out entry by entry, as the arrays and records
\* of the program are stored
Tabulate(f) == f @@ << >>

Abs(x) == IF x < 0 THEN -x ELSE x
Max(a, b) == IF a > b THEN a ELSE b
VecAdd(a, b) == <<a[1] + b[1], a[2] + b[2], a[3] + b[3]>>

\* Array.prototype.indexOf, 1-based; 0 when absent
IndexOf(seq, x) ==
    IF \E i \in 1..Len(seq) : seq[i] = x
    THEN CHOOSE i \in 1..Len(seq) : seq[i] = x /\ \A j \in 1..(i - 1) : seq[j] # x
    ELSE 0

\* Array.prototype.splice( i, 1 ), i 1-based
Splice(seq, i) == SubSeq(seq, 1, i - 1) \o SubSeq(seq, i + 1, Len(seq))

Range(seq) == {seq[i] : i \in 1..Len(seq)}

\* bit k (0, 1, 2) of an octant index
Bit(index, k) == (index \div (2 ^ k)) % 2

(***************************************************************************)
(* THREE.OctreeObjectData                                                  *)
(***************************************************************************)
FreeData ==
    [object |-> NoSource, faces |-> NoFace, radius |-> 0,
     position |-> <<0, 0, 0>>, positionLast |-> <<0, 0, 0>>,
     node |-> NoNode, indexOctant |-> NoIndex]

\* objectData.useFaces
useFaces(od) == od.faces # NoFace

\* OctreeObjectData.prototype.update: radius and position from the host scene
\* (w is the host's placement of od.object)
update_data(od, w) ==
    IF useFaces(od)
    THEN [od EXCEPT !.radius = FacesOf(od.object)[od.faces].radius,
                    !.position = VecAdd(w.position, FacesOf(od.object)[od.faces].centroid)]
    ELSE [od EXCEPT !.radius = w.radius, !.position = w.position]

\* new THREE.OctreeObjectData( object, face )
OctreeObjectData(object, face, w) ==
    LET od0 == [FreeData EXCEPT !.object = object, !.faces = face]
        od1 == update_data(od0, w)
    IN [od1 EXCEPT !.positionLast = od1.position]

(***************************************************************************)
(* THREE.OctreeNode: construction and links                                *)
(***************************************************************************)
Exact(num, den) == num % den = 0

\* new THREE.OctreeNode( { tree, parent, position, radius, indexOctant } ):
\* the node record; the caller stores it at a fresh address
OctreeNode(ns, position, radius, indexOctant, parent) ==
    LET r == IF radius > 0 THEN radius ELSE 1
        ov == (r * overlapPct[1]) \div overlapPct[2]
    IN [position |-> position,
        radius |-> r,
        indexOctant |-> indexOctant,
        depth |-> IF parent # NoNode THEN ns[parent].depth + 1 ELSE 0,
        parent |-> parent,
        objects |-> << >>,
        nodesIndices |-> << >>,
        nodesByIndex |-> Tabulate([k \in 0..7 |-> NoNode]),
        overlap |-> ov,
        radiusOverlap |-> r + ov]

\* the node's bounds: left/right, bottom/top, back/front
Low(node, axis) == node.position[axis] - node.radiusOverlap
High(node, axis) == node.position[axis] + node.radiusOverlap

ChildAt(ns, n, i) == ns[n].nodesByIndex[ns[n].nodesIndices[i]]

RECURSIVE properties_update_cascade(_, _)
RECURSIVE CascadeChildren(_, _, _)
\* OctreeNode.prototype.properties_update_cascade
properties_update_cascade(ns, n) ==
    LET d == IF ns[n].parent # NoNode THEN ns[ns[n].parent].depth + 1 ELSE 0
    IN CascadeChildren([ns EXCEPT ![n].depth = d], n, 1)

CascadeChildren(ns, n, i) ==
    IF i > Len(ns[n].nodesIndices)
    THEN ns
    ELSE CascadeChildren(properties_update_cascade(ns, ChildAt(ns, n, i)), n, i + 1)

\* the setter of OctreeNode.prototype.parent
set_parent(ns, n, parent) ==
    properties_update_cascade(
        [ns EXCEPT ![n].parent = IF parent # n THEN parent ELSE @], n)

RECURSIVE reset(_, _, _)
RECURSIVE ResetChildren(_, _, _, _, _)
\* OctreeNode.prototype.reset( cascade, removeVisual )
reset(ns, n, cascade) ==
    LET ns1 == [ns EXCEPT ![n].objects = << >>,
                          ![n].nodesIndices = << >>,
                          ![n].nodesByIndex = Tabulate([k \in 0..7 |-> NoNode])]
    IN ResetChildren(ns1, ns[n].nodesIndices, ns[n].nodesByIndex, cascade, 1)

ResetChildren(ns, nodesIndices, nodesByIndex, cascade, i) ==
    IF i > Len(nodesIndices)
    THEN ns
    ELSE LET c == nodesByIndex[nodesIndices[i]]
             ns1 == set_parent(ns, c, NoNode)
             ns2 == IF cascade THEN reset(ns1, c, cascade) ELSE ns1
         IN ResetChildren(ns2, nodesIndices, nodesByIndex, cascade, i + 1)

\* OctreeNode.prototype.add_node( node, indexOctant ), indexOctant a number
add_node(ns, n, node, indexOctant) ==
    LET ns1 == [ns EXCEPT ![node].indexOctant = indexOctant,
                          ![n].nodesIndices =
                              IF IndexOf(@, indexOctant) = 0
                              THEN Append(@, indexOctant) ELSE @,
                          ![n].nodesByIndex[indexOctant] = node]
    IN IF ns1[node].parent # n THEN set_parent(ns1, node, n) ELSE ns1

\* OctreeNode.prototype.remove_node( identifier ), identifier a number:
\* splice( indexOf, 1 ) takes the last entry when the index is absent
remove_node(ns, n, indexOctant) ==
    LET index == IndexOf(ns[n].nodesIndices, indexOctant)
        len == Len(ns[n].nodesIndices)
        node == ns[n].nodesByIndex[indexOctant]
        ns1 == [ns EXCEPT ![n].nodesIndices =
                              IF index # 0 THEN Splice(@, index)
                              ELSE IF len > 0 THEN Splice(@, len) ELSE @,
                          ![n].nodesByIndex[indexOctant] = NoNode]
    IN IF ns1[node].parent = n THEN set_parent(ns1, node, NoNode) ELSE ns1

RECURSIVE objects_end(_, _)
RECURSIVE ObjectsEndChildren(_, _, _)
\* OctreeNode.prototype.objects_end: the objects of the node and its subtree
objects_end(ns, n) == ns[n].objects \o ObjectsEndChildren(ns, n, 1)

ObjectsEndChildren(ns, n, i) ==
    IF i > Len(ns[n].nodesIndices)
    THEN << >>
    ELSE objects_end(ns, ChildAt(ns, n, i)) \o ObjectsEndChildren(ns, n, i + 1)

\* OctreeNode.prototype.object_count_end
object_count_end(ns, n) == Len(objects_end(ns, n))

RECURSIVE depth_end(_, _, _)
RECURSIVE DepthEndChildren(_, _, _, _)
\* OctreeNode.prototype.depth_end( depth ); an undefined depth reads as 0
depth_end(ns, n, depth) ==
    IF Len(ns[n].nodesIndices) > 0
    THEN DepthEndChildren(ns, n, depth, 1)
    ELSE IF depth = 0 \/ ns[n].depth > depth THEN ns[n].depth ELSE depth

DepthEndChildren(ns, n, depth, i) ==
    IF i > Len(ns[n].nodesIndices)
    THEN depth
    ELSE DepthEndChildren(ns, n, depth_end(ns, ChildAt(ns, n, i), depth), i + 1)

(***************************************************************************)
(* Geometry predicates                                                     *)
(***************************************************************************)
PosFlag(axis) == IF axis = 1 THEN FLAG_POS_X ELSE IF axis = 2 THEN FLAG_POS_Y ELSE FLAG_POS_Z
NegFlag(axis) == IF axis = 1 THEN FLAG_NEG_X ELSE IF axis = 2 THEN FLAG_NEG_Y ELSE FLAG_NEG_Z

\* octant_index with the positive flag also for an object level with the
\* centre (delta >= 0 in place of delta > 0)
octant_index_level(node, positionObj, radiusObj) ==
    LET delta == <<positionObj[1] - node.position[1],
                   positionObj[2] - node.position[2],
                   positionObj[3] - node.position[3]>>
        dist == <<Abs(delta[1]), Abs(delta[2]), Abs(delta[3])>>
        distance == Max(dist[1], Max(dist[2], dist[3]))
        flag(a) == IF dist[a] + radiusObj > node.radiusOverlap
                   THEN (IF delta[a] >= 0 THEN PosFlag(a) ELSE NegFlag(a))
                   ELSE 0
        side(a) == IF delta[a] - radiusObj > -node.overlap THEN 1
                   ELSE IF ~(delta[a] + radiusObj < node.overlap) THEN 2
                   ELSE 0
    IN IF distance + radiusObj > node.radiusOverlap
       THEN -(flag(1) + flag(2) + flag(3)) - INDEX_OUTSIDE_OFFSET
       ELSE IF side(1) = 2 \/ side(2) = 2 \/ side(3) = 2
       THEN INDEX_INSIDE_CROSS
       ELSE side(1) + 2 * side(2) + 4 * side(3)

\* OctreeNode.prototype.octant_index: the index returned for an object at
\* positionObj with radius radiusObj
octant_index(node, positionObj, radiusObj) ==
    LET delta == <<positionObj[1] - node.position[1],
                   positionObj[2] - node.position[2],
                   positionObj[3] - node.position[3]>>
        dist == <<Abs(delta[1]), Abs(delta[2]), Abs(delta[3])>>
        distance == Max(dist[1], Max(dist[2], dist[3]))
        flag(a) == IF dist[a] + radiusObj > node.radiusOverlap
                   THEN (IF delta[a] > 0 THEN PosFlag(a) ELSE NegFlag(a))
                   ELSE 0
        \* 1: right of the centre, 0: left, 2: across the centre
        side(a) == IF delta[a] - radiusObj > -node.overlap THEN 1
                   ELSE IF ~(delta[a] + radiusObj < node.overlap) THEN 2
                   ELSE 0
    IN IF distance + radiusObj > node.radiusOverlap
       THEN -(flag(1) + flag(2) + flag(3)) - INDEX_OUTSIDE_OFFSET
       ELSE IF side(1) = 2 \/ side(2) = 2 \/ side(3) = 2
       THEN INDEX_INSIDE_CROSS
       ELSE side(1) + 2 * side(2) + 4 * side(3)

\* octant_index called on a descriptor: it also stores the index in the
\* descriptor and refreshes its positionLast
classify(st, n, d) ==
    LET indexOctant == octant_index(st.nodes[n], st.data[d].position, st.data[d].radius)
    IN [st EXCEPT !.data[d].positionLast = st.data[d].position,
                  !.data[d].indexOctant = indexOctant,
                  !.ret = indexOctant]

\* OctreeNode.prototype.octant_index_from_xyz
octant_index_from_xyz(x, y, z) ==
    (IF x > 0 THEN 1 ELSE 0) + (IF y > 0 THEN 2 ELSE 0) + (IF z > 0 THEN 4 ELSE 0)

\* OctreeNode.prototype.intersect_sphere for the point position / scale
intersect_sphere_at(node, position, scale, radius) ==
    LET deficit(a) == IF position[a] < Low(node, a) * scale
                      THEN (position[a] - Low(node, a) * scale)
                               * (position[a] - Low(node, a) * scale)
                      ELSE IF position[a] > High(node, a) * scale
                      THEN (position[a] - High(node, a) * scale)
                               * (position[a] - High(node, a) * scale)
                      ELSE 0
    IN radius * radius * scale * scale - deficit(1) - deficit(2) - deficit(3) >= 0

\* intersect_sphere that tests each axis on its own: the sphere's centre is
\* within radius of the bounds on every axis
intersect_sphere_axes(node, position, radius) ==
    \A a \in 1..3 : /\ position[a] >= Low(node, a) - radius
                     /\ position[a] <= High(node, a) + radius

\* OctreeNode.prototype.intersect_sphere
intersect_sphere(node, position, radius) == intersect_sphere_at(node, position, 1, radius)

\* direction === undefined: a sphere search
NoDirection == << >>

\* the point of the segment origin + t * direction, 0 <= t <= length (of the
\* half line when length is 0), that is closest to centre, for a direction
\* <<x, y, z, den>> of length 1 (normalize leaves it as it is).  The result
\* is the point times den * den, which keeps the arithmetic exact.
ClosestPoint(centre, origin, direction, length) ==
    LET den == direction[4]
        \* dot * den
        dot == (centre[1] - origin[1]) * direction[1]
                 + (centre[2] - origin[2]) * direction[2]
                 + (centre[3] - origin[3]) * direction[3]
        \* dotClamped * length * den
        along == IF length > 0
                 THEN (IF dot < 0 THEN 0
                       ELSE IF dot > length * den THEN length * den ELSE dot)
                 ELSE Max(0, dot)
    IN << origin[1] * den * den + direction[1] * along,
          origin[2] * den * den + direction[2] * along,
          origin[3] * den * den + direction[3] * along >>

\* OctreeNode.prototype.closest_point_from_line( origin, direction, length )
closest_point_from_line(node, origin, direction, length) ==
    ClosestPoint(node.position, origin, direction, length)

\* OctreeNode.prototype.intersect_ray
intersect_ray(node, position, direction, distance) ==
    intersect_sphere_at(node, closest_point_from_line(node, position, direction, distance),
                        direction[4] * direction[4], 0)

(***************************************************************************)
(* OctreeNode: branch, add, grow, split, expand, merge, contract           *)
(***************************************************************************)
Offset(indexOctant, radiusOffset) ==
    << IF Bit(indexOctant, 0) = 1 THEN radiusOffset ELSE -radiusOffset,
       IF Bit(indexOctant, 1) = 1 THEN radiusOffset ELSE -radiusOffset,
       IF Bit(indexOctant, 2) = 1 THEN radiusOffset ELSE -radiusOffset >>

\* branch with a child of half the radius of its parent, the overlap left out
branch_halved(st, n, indexOctant) ==
    LET this == st.nodes[n]
        radius == this.radius \div 2
        overlap == (radius * overlapPct[1]) \div overlapPct[2]
        radiusOffset == radius - overlap
        position == VecAdd(this.position, Offset(indexOctant, radiusOffset))
        node == Len(st.nodes) + 1
    IN IF this.nodesByIndex[indexOctant] # NoNode
       THEN [st EXCEPT !.ret = this.nodesByIndex[indexOctant]]
       ELSE IF ~Exact(this.radius, 2) \/ ~Exact(radius * overlapPct[1], overlapPct[2])
       THEN [st EXCEPT !.err = "bound"]
       ELSE [st EXCEPT
               !.nodes = add_node(
                   Append(st.nodes, OctreeNode(st.nodes, position, radius, indexOctant, n)),
                   n, node, indexOctant),
               !.ret = node]

\* OctreeNode.prototype.branch( indexOctant ); st.ret is the child
branch(st, n, indexOctant) ==
    LET this == st.nodes[n]
        radius == this.radiusOverlap \div 2
        overlap == (radius * overlapPct[1]) \div overlapPct[2]
        radiusOffset == radius - overlap
        position == VecAdd(this.position, Offset(indexOctant, radiusOffset))
        node == Len(st.nodes) + 1
    IN IF this.nodesByIndex[indexOctant] # NoNode
       THEN [st EXCEPT !.ret = this.nodesByIndex[indexOctant]]
       ELSE IF ~Exact(this.radiusOverlap, 2) \/ ~Exact(radius * overlapPct[1], overlapPct[2])
       THEN [st EXCEPT !.err = "bound"]
       ELSE [st EXCEPT
               !.nodes = add_node(
                   Append(st.nodes, OctreeNode(st.nodes, position, radius, indexOctant, n)),
                   n, node, indexOctant),
               !.ret = node]

\* OctreeNode.prototype.add_objects_no_check( objects )
add_objects_no_check(st, n, objs) ==
    [st EXCEPT !.nodes[n].objects = @ \o objs,
               !.data = Tabulate([d \in DOMAIN st.data |->
                            IF d \in Range(objs) THEN [st.data[d] EXCEPT !.node = n]
                            ELSE st.data[d]])]

\* the outside indices sorted by count, highest first (Array.prototype.sort
\* keeps the order of equal counts)
SortByCount(count) ==
    LET rank(k) == Cardinality({j \in 0..5 :
                        count[j] > count[k] \/ (count[j] = count[k] /\ j < k)})
    IN Tabulate([i \in 1..6 |-> CHOOSE k \in 0..5 : rank(k) = i - 1])

\* the flags -indexOctant - INDEX_OUTSIDE_OFFSET holds: flagsOutside & flag
HasFlag(flagsOutside, flag) == (flagsOutside \div flag) % 2 = 1

\* the counts expand tallies for the objects whose octant is outside
OutsideCounts(octants) ==
    LET flagsOf(i) == -octants[i] - INDEX_OUTSIDE_OFFSET
        out == {i \in 1..Len(octants) : octants[i] < -1}
        hits(pos, neg, k) ==
            Cardinality({i \in out :
                IF k = 0 THEN HasFlag(flagsOf(i), pos)
                ELSE ~HasFlag(flagsOf(i), pos) /\ HasFlag(flagsOf(i), neg)})
    IN Tabulate([k \in 0..5 |->
          CASE k = INDEX_OUTSIDE_POS_X -> hits(FLAG_POS_X, FLAG_NEG_X, 0)
            [] k = INDEX_OUTSIDE_NEG_X -> hits(FLAG_POS_X, FLAG_NEG_X, 1)
            [] k = INDEX_OUTSIDE_POS_Y -> hits(FLAG_POS_Y, FLAG_NEG_Y, 0)
            [] k = INDEX_OUTSIDE_NEG_Y -> hits(FLAG_POS_Y, FLAG_NEG_Y, 1)
            [] k = INDEX_OUTSIDE_POS_Z -> hits(FLAG_POS_Z, FLAG_NEG_Z, 0)
            [] OTHER -> hits(FLAG_POS_Z, FLAG_NEG_Z, 1)])

\* index | 1
Or1(index) == 2 * (index \div 2) + 1

\* the three highest counts whatever their axes
ExpandChoiceHighest(indexOutsideCounts) == SubSeq(indexOutsideCounts, 1, 3)

\* expand: the three outside indices chosen from the sorted counts,
\* <<infoIndexOutside1, infoIndexOutside2, infoIndexOutside3>>
ExpandChoice(indexOutsideCounts) ==
    LET infoIndexOutside1 == indexOutsideCounts[1]
        indexOutsideBitwise1 == Or1(infoIndexOutside1)
        infoIndexOutside2 ==
            IF Or1(indexOutsideCounts[2]) # indexOutsideBitwise1
            THEN indexOutsideCounts[2] ELSE indexOutsideCounts[3]
        indexOutsideBitwise2 == Or1(infoIndexOutside2)
        indexPotentialBitwise1 == Or1(indexOutsideCounts[3])
        indexPotentialBitwise2 == Or1(indexOutsideCounts[4])
        infoIndexOutside3 ==
            IF indexPotentialBitwise1 # indexOutsideBitwise1
               /\ indexPotentialBitwise1 # indexOutsideBitwise2
            THEN indexOutsideCounts[3]
            ELSE IF indexPotentialBitwise2 # indexOutsideBitwise1
                    /\ indexPotentialBitwise2 # indexOutsideBitwise2
            THEN indexOutsideCounts[4]
            ELSE indexOutsideCounts[5]
    IN <<infoIndexOutside1, infoIndexOutside2, infoIndexOutside3>>

\* expand: the octant normal <<octantX, octantY, octantZ>> of the three
\* outside indices chosen
ExpandNormal(indexOutsideCounts) ==
    LET info == ExpandChoice(indexOutsideCounts)
    IN VecAdd(INDEX_OUTSIDE_MAP[info[1]],
              VecAdd(INDEX_OUTSIDE_MAP[info[2]], INDEX_OUTSIDE_MAP[info[3]]))

\* expand: <<indexOctant, indexOctantInverse>> of the octant normal
ExpandOctant(normal) ==
    << octant_index_from_xyz(normal[1], normal[2], normal[3]),
       octant_index_from_xyz(-normal[1], -normal[2], -normal[3]) >>

\* the positions (1-based) of a list that satisfy Test
Where(seq, Test(_)) == SelectSeq([i \in 1..Len(seq) |-> i], Test)
Pick(seq, where) == Tabulate([j \in 1..Len(where) |-> seq[where[j]]])

\* a call returned st; the caller goes on with ret
SetRet(st, ret) == [st EXCEPT !.ret = ret]

\* a call returned st; its result follows what the caller had collected
PrependRet(st, collected) ==
    IF st.err # "" THEN st ELSE [st EXCEPT !.ret = collected \o @]

RECURSIVE add_object(_, _, _, _)
RECURSIVE grow(_, _, _)
RECURSIVE split(_, _, _, _, _)
RECURSIVE SplitLoop(_, _, _, _, _, _)
RECURSIVE expand(_, _, _, _, _)
RECURSIVE ExpandLoop(_, _, _, _)
RECURSIVE merge_check(_, _, _)
RECURSIVE merge(_, _, _, _)

\* grow_check without the test of objectsThreshold > 0
grow_check_above(st, n, fuel) ==
    IF Len(st.nodes[n].objects) > objectsThreshold
    THEN grow(st, n, fuel)
    ELSE st

\* OctreeNode.prototype.grow_check
grow_check(st, n, fuel) ==
    IF Len(st.nodes[n].objects) > objectsThreshold /\ objectsThreshold > 0
    THEN grow(st, n, fuel)
    ELSE st

\* OctreeNode.prototype.add_object( object )
add_object(st, n, d, fuel) ==
    IF st.err # "" THEN st
    ELSE IF fuel = 0 THEN [st EXCEPT !.err = "stack"]
    ELSE
    LET s1 == classify(st, n, d)
        indexOctant == s1.ret
        this == s1.nodes[n]
    IN IF indexOctant > -1 /\ Len(this.nodesIndices) > 0
       THEN LET s2 == branch(s1, n, indexOctant)
            IN IF s2.err # "" THEN s2 ELSE add_object(s2, s2.ret, d, fuel - 1)
       ELSE IF indexOctant < -1 /\ this.parent # NoNode
       THEN add_object(s1, this.parent, d, fuel - 1)
       ELSE grow_check(
                [s1 EXCEPT !.nodes[n].objects =
                               IF IndexOf(@, d) = 0 THEN Append(@, d) ELSE @,
                           !.data[d].node = n],
                n, fuel - 1)

\* grow: the call of split; st.ret is objectsRemaining so far
GrowSplit(st, n, objs, octants, fuel) ==
    LET whereSplit == Where(objs, LAMBDA i : octants[i] > -1)
        whereRemaining == Where(objs, LAMBDA i : octants[i] = -1)
    IN IF Len(whereSplit) > 0
       THEN PrependRet(split(st, n, Pick(objs, whereSplit), Pick(octants, whereSplit),
                             fuel - 1),
                       Pick(objs, whereRemaining))
       ELSE [st EXCEPT !.ret = Pick(objs, whereRemaining)]

\* grow: the call of expand; st.ret is objectsRemaining so far
GrowExpand(st, n, objs, octants, fuel) ==
    LET whereExpand == Where(objs, LAMBDA i : octants[i] < -1)
    IN IF st.err = "" /\ Len(whereExpand) > 0
       THEN PrependRet(expand(st, n, Pick(objs, whereExpand), Pick(octants, whereExpand),
                              fuel - 1),
                       st.ret)
       ELSE st

\* grow: this.objects = objectsRemaining; this.merge_check()
GrowMerge(st, n, fuel) ==
    IF st.err # "" THEN st
    ELSE merge_check([st EXCEPT !.nodes[n].objects = st.ret], n, fuel - 1)

\* OctreeNode.prototype.grow
grow(st, n, fuel) ==
    IF st.err # "" THEN st
    ELSE IF fuel = 0 THEN [st EXCEPT !.err = "stack"]
    ELSE
    LET objs == st.nodes[n].objects
        octants == Tabulate([i \in 1..Len(objs) |->
                       octant_index(st.nodes[n], st.data[objs[i]].position,
                                    st.data[objs[i]].radius)])
        \* the loop's calls of octant_index store the index in each object
        s0 == [st EXCEPT !.data =
                  Tabulate([d \in DOMAIN st.data |->
                      IF d \in Range(objs)
                      THEN [st.data[d] EXCEPT
                              !.positionLast = st.data[d].position,
                              !.indexOctant = octants[IndexOf(objs, d)]]
                      ELSE st.data[d]])]
    IN GrowMerge(GrowExpand(GrowSplit(s0, n, objs, octants, fuel),
                            n, objs, octants, fuel),
                 n, fuel)

\* a split that never looks at depthMax
split_uncapped(st, n, objs, octants, fuel) ==
    SplitLoop([st EXCEPT !.ret = << >>], n, objs, octants, 1, fuel)

\* OctreeNode.prototype.split( objects, octants ), called by grow with lists
\* of its own; st.ret is objectsRemaining
split(st, n, objs, octants, fuel) ==
    IF depthMax < 0 \/ st.nodes[n].depth < depthMax
    THEN SplitLoop([st EXCEPT !.ret = << >>], n, objs, octants, 1, fuel)
    ELSE [st EXCEPT !.ret = st.nodes[n].objects]

\* the loop of split; acc.ret collects objectsRemaining
SplitLoop(st, n, objs, octants, i, fuel) ==
    IF st.err # "" \/ i > Len(objs) THEN st
    ELSE LET objectsRemaining == st.ret
         IN IF octants[i] > -1
            THEN LET s1 == branch(st, n, octants[i])
                     s2 == IF s1.err # "" THEN s1
                           ELSE add_object(s1, s1.ret, objs[i], fuel)
                 IN SplitLoop([s2 EXCEPT !.ret = objectsRemaining],
                              n, objs, octants, i + 1, fuel)
            ELSE SplitLoop([st EXCEPT !.ret = Append(objectsRemaining, objs[i])],
                           n, objs, octants, i + 1, fuel)

RECURSIVE Preorder(_, _)
RECURSIVE PreorderChildren(_, _, _)
\* the nodes reachable from n, parents first
Preorder(ns, n) == <<n>> \o PreorderChildren(ns, n, 1)

PreorderChildren(ns, n, i) ==
    IF i > Len(ns[n].nodesIndices) THEN << >>
    ELSE Preorder(ns, ChildAt(ns, n, i)) \o PreorderChildren(ns, n, i + 1)

\* what one run of expand on node n did: the root it found, whether every
\* node reachable from that root is reachable from the new root, the parent
\* it created, and the root and the nodes it left
Expanded(st, n, parent, installed) ==
    [node |-> n, root |-> st.root,
     kept |-> Range(Preorder(st.nodes, st.root))
                  \subseteq Range(Preorder(installed.nodes, installed.root)),
     parent |-> parent, rootAfter |-> installed.root, nodes |-> installed.nodes]

\* expand: the parent is installed as the root, and the run is recorded
Install(st, n, parent, installed) ==
    [installed EXCEPT !.expanded = Append(@, Expanded(st, n, parent, installed))]

\* OctreeNode.prototype.expand( objects, octants ), called by grow with lists
\* of its own; st.ret is objectsRemaining.  st.expanded is the history of
\* the runs of expand in the call of the host.
expand(st, n, objs, octants, fuel) ==
    IF depthMax < 0 \/ depth_end(st.nodes, st.root, 0) < depthMax
    THEN
      LET this == st.nodes[n]
          objectsExpand == Pick(objs, Where(objs, LAMBDA i : octants[i] < -1))
          objectsRemaining == Pick(objs, Where(objs, LAMBDA i : ~(octants[i] < -1)))
          octant == ExpandOctant(ExpandNormal(SortByCount(OutsideCounts(octants))))
          indexOctant == octant[1]
          indexOctantInverse == octant[2]
          overlap == this.overlap
          radius == this.radius
          denominator == overlapPct[1] * (overlapPct[1] + overlapPct[2])
          numerator == overlap * 2 * overlapPct[2] * overlapPct[2]
          radiusParent == IF overlapPct[1] > 0 THEN numerator \div denominator
                          ELSE radius * 2
          overlapParent == (radiusParent * overlapPct[1]) \div overlapPct[2]
          radiusOffset == (radiusParent + overlapParent) - (radius + overlap)
          position == VecAdd(this.position, Offset(indexOctant, radiusOffset))
          parent == Len(st.nodes) + 1
          exact == (overlapPct[1] > 0 => Exact(numerator, denominator))
                   /\ Exact(radiusParent * overlapPct[1], overlapPct[2])
      IN IF Len(objectsExpand) = 0
         THEN [st EXCEPT !.ret = objectsRemaining]
         ELSE IF ~exact THEN [st EXCEPT !.err = "bound"]
         ELSE LET ns1 == Append(st.nodes,
                                OctreeNode(st.nodes, position, radiusParent, NoIndex, NoNode))
                  ns2 == add_node(ns1, parent, n, indexOctantInverse)
                  \* root_set( parent )
                  s1 == Install(st, n, parent,
                                [st EXCEPT !.nodes = properties_update_cascade(ns2, parent),
                                           !.root = parent])
                  s2 == ExpandLoop(s1, objectsExpand, 1, fuel)
              IN [s2 EXCEPT !.ret = objectsRemaining]
    ELSE [st EXCEPT !.ret = objs]

\* expand: this.tree.root.add_object( objectsExpand[ i ] )
ExpandLoop(st, objectsExpand, i, fuel) ==
    IF st.err # "" \/ i > Len(objectsExpand) THEN st
    ELSE ExpandLoop(add_object(st, st.root, objectsExpand[i], fuel),
                    objectsExpand, i + 1, fuel)

RECURSIVE MergeWalk(_, _, _)
\* merge_check: the walk up the tree; <<nodeParent, nodeMerge>>
MergeWalk(ns, nodeParent, nodeMerge) ==
    IF ns[nodeParent].parent # NoNode /\ object_count_end(ns, nodeParent) < objectsThreshold
    THEN MergeWalk(ns, ns[nodeParent].parent, nodeParent)
    ELSE <<nodeParent, nodeMerge>>

\* OctreeNode.prototype.merge_check
merge_check(st, n, fuel) ==
    IF st.err # "" THEN st
    ELSE IF fuel = 0 THEN [st EXCEPT !.err = "stack"]
    ELSE LET walk == MergeWalk(st.nodes, n, NoNode)
         IN IF walk[1] # n THEN merge(st, walk[1], walk[2], fuel - 1) ELSE st

\* merge, the loop over nodes: the objects of node and of its subtree join
\* this node, and node is reset and removed
MergeNode(st, n, node) ==
    LET s1 == add_objects_no_check(st, n, objects_end(st.nodes, node))
        ns2 == reset(s1.nodes, node, TRUE)
    IN IF ns2[node].indexOctant = NoIndex THEN [s1 EXCEPT !.nodes = ns2]
       \* remove_node reads node.parent of the node kept at the index
       ELSE IF ns2[n].nodesByIndex[ns2[node].indexOctant] = NoNode
       THEN [s1 EXCEPT !.err = "TypeError"]
       ELSE [s1 EXCEPT !.nodes = remove_node(ns2, n, ns2[node].indexOctant)]

\* OctreeNode.prototype.merge( nodes ), nodes a single node
merge(st, n, node, fuel) == merge_check(MergeNode(st, n, node), n, fuel)

RECURSIVE contract_check(_, _, _)
RECURSIVE ContractLoop(_, _, _, _)
RECURSIVE Heaviest(_, _, _, _, _)

\* contract_check: the loop that finds nodeHeaviest;
\* <<nodeHeaviest, nodeHeaviestObjectsCount>>
Heaviest(ns, n, i, nodeHeaviest, nodeHeaviestObjectsCount) ==
    IF i > Len(ns[n].nodesIndices)
    THEN <<nodeHeaviest, nodeHeaviestObjectsCount>>
    ELSE LET node == ChildAt(ns, n, i)
             nodeObjectsCount == object_count_end(ns, node)
         IN IF nodeHeaviest = NoNode \/ nodeObjectsCount > nodeHeaviestObjectsCount
            THEN Heaviest(ns, n, i + 1, node, nodeObjectsCount)
            ELSE Heaviest(ns, n, i + 1, nodeHeaviest, nodeHeaviestObjectsCount)

\* contract: the loop over the nodes that are not the new root
ContractLoop(st, nodesIndices, nodesByIndex, nodeRoot) ==
    IF nodesIndices = << >> THEN st
    ELSE LET node == nodesByIndex[Head(nodesIndices)]
             s1 == IF node # nodeRoot
                   THEN LET s0 == add_objects_no_check(st, nodeRoot,
                                                       objects_end(st.nodes, node))
                        IN [s0 EXCEPT !.nodes = reset(s0.nodes, node, TRUE)]
                   ELSE st
         IN ContractLoop(s1, Tail(nodesIndices), nodesByIndex, nodeRoot)

\* OctreeNode.prototype.contract( nodeRoot )
contract(st, n, nodeRoot) ==
    LET s1 == ContractLoop(st, st.nodes[n].nodesIndices, st.nodes[n].nodesByIndex, nodeRoot)
        s2 == add_objects_no_check(s1, nodeRoot, s1.nodes[n].objects)
        ns3 == reset(s2.nodes, n, FALSE)
    \* root_set( nodeRoot )
    IN [s2 EXCEPT !.nodes = properties_update_cascade(ns3, nodeRoot), !.root = nodeRoot]

\* OctreeNode.prototype.contract_check
contract_check(st, n, fuel) ==
    IF st.err # "" THEN st
    ELSE IF fuel = 0 THEN [st EXCEPT !.err = "stack"]
    ELSE IF Len(st.nodes[n].nodesIndices) > 0
    THEN LET h == Heaviest(st.nodes, n, 1, NoNode, 0)
             outsideHeaviestObjectsCount == object_count_end(st.nodes, n) - h[2]
         IN IF outsideHeaviestObjectsCount < objectsThreshold /\ h[1] # NoNode
            THEN contract_check(contract(st, n, h[1]), h[1], fuel - 1)
            ELSE st
    ELSE st

\* shrink: this.tree.root.contract_check()
ShrinkContract(st, fuel) ==
    IF st.err # "" THEN st ELSE contract_check(st, st.root, fuel)

\* OctreeNode.prototype.shrink
shrink(st, n, fuel) == ShrinkContract(merge_check(st, n, fuel), fuel)

(***************************************************************************)
(* OctreeNode: remove and search                                           *)
(***************************************************************************)
RECURSIVE RemoveSlow(_, _, _, _)
\* remove_object_end, the loop over this.objects from the last to the first
\* for a source (slow); st.ret is removeData
RemoveSlow(st, n, object, i) ==
    IF i < 1 THEN st
    ELSE LET d == st.nodes[n].objects[i]
         IN IF st.data[d].object = object
            THEN LET s1 == [st EXCEPT
                              !.nodes[n].objects = Splice(@, i),
                              !.data[d].node = NoNode,
                              !.ret.objectsDataRemoved = Append(@, d),
                              !.ret.searchComplete =
                                  IF st.data[d].faces = NoFace THEN TRUE ELSE @]
                 IN IF st.data[d].faces = NoFace THEN s1
                    ELSE RemoveSlow(s1, n, object, i - 1)
            ELSE RemoveSlow(st, n, object, i - 1)

RECURSIVE remove_object_end(_, _, _, _)
RECURSIVE RemoveChildren(_, _, _, _, _)
\* OctreeNode.prototype.remove_object_end( object, removeData ); object is a
\* descriptor (isData) or a source; removeData is st.ret
remove_object_end(st, n, object, isData) ==
    LET index == IndexOf(st.nodes[n].objects, object)
        s1 == IF isData
              THEN IF index # 0
                   THEN [st EXCEPT !.nodes[n].objects = Splice(@, index),
                                   !.data[object].node = NoNode,
                                   !.ret.objectsDataRemoved = Append(@, object),
                                   !.ret.searchComplete = TRUE]
                   ELSE st
              ELSE RemoveSlow(st, n, object, Len(st.nodes[n].objects))
        objectRemoved == Len(s1.ret.objectsDataRemoved) > Len(st.ret.objectsDataRemoved)
        s2 == IF objectRemoved
              THEN [s1 EXCEPT !.ret.nodesRemovedFrom = Append(@, n)]
              ELSE s1
    IN IF s2.ret.searchComplete THEN s2
       ELSE RemoveChildren(s2, n, object, isData, 1)

RemoveChildren(st, n, object, isData, i) ==
    IF i > Len(st.nodes[n].nodesIndices) \/ st.ret.searchComplete THEN st
    ELSE RemoveChildren(remove_object_end(st, ChildAt(st.nodes, n, i), object, isData),
                        n, object, isData, i + 1)

RECURSIVE ShrinkLoop(_, _, _, _)
\* remove_object: nodesRemovedFrom[ i ].shrink()
ShrinkLoop(st, nodesRemovedFrom, i, fuel) ==
    IF st.err # "" \/ i > Len(nodesRemovedFrom) THEN st
    ELSE ShrinkLoop(shrink(st, nodesRemovedFrom[i], fuel), nodesRemovedFrom, i + 1, fuel)

\* remove_object: the shrink of every node an object was removed from;
\* st.ret is removeData
RemoveShrink(st, fuel) ==
    SetRet(ShrinkLoop(st, st.ret.nodesRemovedFrom, 1, fuel), st.ret.objectsDataRemoved)

\* OctreeNode.prototype.remove_object( object ); st.ret is objectsDataRemoved
remove_object(st, n, object, isData, fuel) ==
    RemoveShrink(remove_object_end(
                     [st EXCEPT !.ret = [searchComplete |-> FALSE,
                                         nodesRemovedFrom |-> << >>,
                                         objectsDataRemoved |-> << >>]],
                     n, object, isData),
                 fuel)

\* the node's test at the head of OctreeNode.prototype.search
Intersects(node, position, radius, direction) ==
    IF direction # NoDirection
    THEN intersect_ray(node, position, direction, radius)
    ELSE intersect_sphere(node, position, radius)

RECURSIVE node_search(_, _, _, _, _, _)
RECURSIVE SearchChildren(_, _, _, _, _, _, _)
\* OctreeNode.prototype.search( position, radius, objects, direction )
node_search(ns, n, position, radius, objs, direction) ==
    IF Intersects(ns[n], position, radius, direction)
    THEN SearchChildren(ns, n, position, radius, objs \o ns[n].objects, direction, 1)
    ELSE objs

SearchChildren(ns, n, position, radius, objs, direction, i) ==
    IF i > Len(ns[n].nodesIndices) THEN objs
    ELSE SearchChildren(ns, n, position, radius,
                        node_search(ns, ChildAt(ns, n, i), position, radius, objs, direction),
                        direction, i + 1)

(***************************************************************************)
(* THREE.Octree: add, remove, update, search                               *)
(***************************************************************************)
\* Octree.prototype.add_object_data( object, face ); w is the host's
\* placement of the object.  The new descriptor takes the first free address.
add_object_data(st, object, face, w) ==
    LET free == {d \in DataIds : st.data[d].object = NoSource}
        d == CHOOSE x \in free : \A y \in free : x <= y
    IN IF st.err # "" THEN st
       ELSE IF free = {} THEN [st EXCEPT !.err = "bound"]
       ELSE add_object([st EXCEPT !.data[d] = OctreeObjectData(object, face, w),
                                  !.objectsData = Append(@, d)],
                       st.root, d, MaxCallDepth)

RECURSIVE AddFaces(_, _, _, _)
\* add: the loop over geometry.faces
AddFaces(st, object, i, w) ==
    IF i > Len(FacesOf(object)) THEN st
    ELSE AddFaces(add_object_data(st, object, i, w), object, i + 1, w)

\* add with the test of this.objects.indexOf( object ) left out
add_unguarded(st, object, withFaces, w) ==
    IF withFaces THEN AddFaces([st EXCEPT !.objects = Append(@, object)], object, 1, w)
    ELSE add_object_data([st EXCEPT !.objects = Append(@, object)], object, NoFace, w)

\* Octree.prototype.add( object, useFaces )
add(st, object, withFaces, w) ==
    IF IndexOf(st.objects, object) = 0
    THEN LET s1 == [st EXCEPT !.objects = Append(@, object)]
         IN IF withFaces THEN AddFaces(s1, object, 1, w)
            ELSE add_object_data(s1, object, NoFace, w)
    ELSE st

RECURSIVE SpliceAll(_, _)
\* remove: the loop that takes objectsDataRemoved out of objectsData
SpliceAll(seq, removed) ==
    IF removed = << >> THEN seq
    ELSE LET index == IndexOf(seq, Head(removed))
         IN SpliceAll(IF index # 0 THEN Splice(seq, index) ELSE seq, Tail(removed))

\* remove: the removed descriptors, st.ret, leave the registry
RemoveData(st) ==
    IF st.err # "" THEN st ELSE [st EXCEPT !.objectsData = SpliceAll(@, st.ret)]

\* remove with the test of index !== -1 left out: splice( -1, 1 ) takes the
\* last source
remove_unguarded(st, identifier, isData) ==
    LET object == IF isData THEN st.data[identifier].object ELSE identifier
        index == IndexOf(st.objects, object)
    IN RemoveData(remove_object(
           [st EXCEPT !.objects = IF index # 0 THEN Splice(@, index)
                                  ELSE IF @ # << >> THEN Splice(@, Len(@)) ELSE @],
           st.root, identifier, isData, MaxCallDepth))

\* Octree.prototype.remove( object ); identifier is a source, or a
\* descriptor when isData
remove(st, identifier, isData) ==
    LET object == IF isData THEN st.data[identifier].object ELSE identifier
        index == IndexOf(st.objects, object)
    IN IF index # 0
       THEN RemoveData(remove_object([st EXCEPT !.objects = Splice(@, index)],
                                     st.root, identifier, isData, MaxCallDepth))
       ELSE st

RECURSIVE UpdateCheck(_, _, _)
\* update: the loop over objectsData that refreshes each descriptor and
\* collects objectsUpdate in st.ret
UpdateCheck(st, w, i) ==
    IF i > Len(st.objectsData) THEN st
    ELSE LET d == st.objectsData[i]
             node == st.data[d].node
             objectsUpdate == st.ret
             s1 == [st EXCEPT !.data[d] = update_data(@, w[@.object])]
             indexOctantLast == s1.data[d].indexOctant
             s2 == classify(s1, node, d)
         IN IF node # NoNode /\ s1.data[d].positionLast # s1.data[d].position
            THEN UpdateCheck([s2 EXCEPT !.ret =
                                 IF s2.ret # indexOctantLast
                                 THEN Append(objectsUpdate, d) ELSE objectsUpdate],
                             w, i + 1)
            ELSE UpdateCheck(s1, w, i + 1)

\* update: this.root.add_object( objectData )
UpdateAdd(st, d) == add_object(st, st.root, d, MaxCallDepth)

RECURSIVE UpdateMove(_, _, _)
\* update: the loop that removes each changed object from its node and adds
\* it at the root
UpdateMove(st, objectsUpdate, i) ==
    IF st.err # "" \/ i > Len(objectsUpdate) THEN st
    ELSE LET d == objectsUpdate[i]
         IN IF st.data[d].node = NoNode THEN [st EXCEPT !.err = "TypeError"]
            ELSE UpdateMove(
                     UpdateAdd(remove_object(st, st.data[d].node, d, TRUE, MaxCallDepth), d),
                     objectsUpdate, i + 1)

\* update's second loop run over every registered descriptor, changed or not
UpdateMovedAll(st) == UpdateMove(st, st.objectsData, 1)

\* update: the second loop, over objectsUpdate (st.ret)
UpdateMoved(st) == UpdateMove(st, st.ret, 1)

\* Octree.prototype.update(); w is the host scene
update(st, w) == UpdateMoved(UpdateCheck([st EXCEPT !.ret = << >>], w, 1))

\* a search that tests the root as it tests every other node
SearchObjectsTested(st, position, radius, direction) ==
    node_search(st.nodes, st.root, position, radius, << >>, direction)

\* Octree.prototype.search: the objects found, root.objects first
SearchObjects(st, position, radius, direction) ==
    SearchChildren(st.nodes, st.root, position, radius, st.nodes[st.root].objects, direction, 1)

\* the place of the source object in resultsObjectsIndices, 0 when absent
ResultIndex(results, object) ==
    IF \E k \in 1..Len(results) : results[k].object = object
    THEN CHOOSE k \in 1..Len(results) : results[k].object = object
    ELSE 0

\* one step of the organizeByObject loop that never looks the source up in
\* resultsObjectsIndices
OrganizeOneNew(results, od) ==
    Append(results, [object |-> od.object,
                     faces |-> IF od.faces # NoFace THEN <<od.faces>> ELSE << >>])

\* Octree.prototype.search: one step of the organizeByObject loop, for the
\* descriptor od
OrganizeOne(results, od) ==
    LET at == ResultIndex(results, od.object)
        at1 == IF at = 0 THEN Len(results) + 1 ELSE at
        held == IF at = 0 THEN Append(results, [object |-> od.object, faces |-> << >>])
                ELSE results
    IN IF od.faces # NoFace
       THEN [held EXCEPT ![at1].faces = Append(@, od.faces)]
       ELSE held

RECURSIVE Organize(_, _, _, _)
\* Octree.prototype.search: the organizeByObject loop over the objects found
Organize(st, objs, i, results) ==
    IF i > Len(objs) THEN results
    ELSE Organize(st, objs, i + 1, OrganizeOne(results, st.data[objs[i]]))

\* a search that gathers into root.objects itself instead of a copy of it
search_inplace(st, position, radius, organizeByObject, direction) ==
    [st EXCEPT !.nodes[st.root].objects = SearchObjects(st, position, radius, direction),
               !.ret = IF organizeByObject
                       THEN Organize(st, SearchObjects(st, position, radius, direction), 1, << >>)
                       ELSE SearchObjects(st, position, radius, direction)]

\* Octree.prototype.search( position, radius, organizeByObject, direction );
\* st.ret is the result
search_by(st, position, radius, organizeByObject, direction) ==
    IF organizeByObject
    THEN [st EXCEPT !.ret = Organize(st, SearchObjects(st, position, radius, direction), 1, << >>)]
    ELSE [st EXCEPT !.ret = SearchObjects(st, position, radius, direction)]

\* Octree.prototype.search( position, radius ): the flat list of descriptors
search(st, position, radius) == search_by(st, position, radius, FALSE, NoDirection).ret

(***************************************************************************)
(* The heap between two calls                                              *)
(***************************************************************************)
RECURSIVE Dedup(_)
Dedup(seq) ==
    IF seq = << >> THEN << >>
    ELSE LET rest == Dedup(SelectSeq(Tail(seq), LAMBDA x : x # Head(seq)))
         IN <<Head(seq)>> \o rest

\* the references a node holds: its children, its parent and the nodes its
\* objects point back to
Refs(st, n) ==
    LET node == st.nodes[n]
    IN Tabulate([i \in 1..Len(node.nodesIndices) |-> ChildAt(st.nodes, n, i)])
       \o Tabulate([k \in 1..8 |-> node.nodesByIndex[k - 1]])
       \o <<node.parent>>
       \o Tabulate([i \in 1..Len(node.objects) |-> st.data[node.objects[i]].node])

RECURSIVE Reach(_, _, _)
\* the nodes the references lead to from todo, first met first
Reach(st, todo, seen) ==
    IF todo = << >> THEN seen
    ELSE LET a == Head(todo)
         IN IF a = NoNode \/ IndexOf(seen, a) # 0 THEN Reach(st, Tail(todo), seen)
            ELSE Reach(st, Refs(st, a) \o Tail(todo), Append(seen, a))

RECURSIVE Listed(_, _, _)
\* the objects of the nodes order[i..], in order
Listed(ns, order, i) ==
    IF i > Len(order) THEN << >>
    ELSE ns[order[i]].objects \o Listed(ns, order, i + 1)

\* Addresses are not observable: after a handler returns, the nodes that
\* the tree's root and its registered descriptors still reach are numbered
\* in the order met (the root's tree parents first), and the descriptors in
\* registry order, then those only a node still lists; what nothing
\* reaches is dropped.
Canon(st) ==
    LET registered == Tabulate([i \in 1..Len(st.objectsData) |->
                                   st.data[st.objectsData[i]].node])
        order == Reach(st, <<st.root>> \o registered, << >>)
        newNode(a) == IF a = NoNode THEN NoNode ELSE IndexOf(order, a)
        held == Dedup(st.objectsData \o Listed(st.nodes, order, 1))
        newData(d) == IndexOf(held, d)
        dataSeq(seq) == Tabulate([i \in 1..Len(seq) |-> newData(seq[i])])
    IN [st EXCEPT
          !.root = 1,
          !.nodes = Tabulate([i \in 1..Len(order) |->
                       [st.nodes[order[i]] EXCEPT
                          !.parent = newNode(@),
                          !.objects = dataSeq(@),
                          !.nodesByIndex = Tabulate([k \in 0..7 |-> newNode(@[k])])]]),
          !.objectsData = dataSeq(@),
          !.data = Tabulate([d \in DataIds |->
                      IF d <= Len(held)
                      THEN [st.data[held[d]] EXCEPT !.node = newNode(@)]
                      ELSE FreeData]),
          !.ret = 0]

\* the heap of the current state, as the handlers take it
State ==
    [objects |-> objects, objectsData |-> objectsData, root |-> root,
     nodes |-> nodes, data |-> data, err |-> "", ret |-> 0, expanded |-> << >>]

\* the handler returned: its heap is the next state
Returns(st) ==
    /\ calls < MaxCalls
    /\ st.err = ""
    /\ LET c == Canon(st)
       IN /\ \A n \in 1..Len(c.nodes) : Len(c.nodes[n].objects) <= MaxObjects
          /\ objects' = c.objects
          /\ objectsData' = c.objectsData
          /\ root' = c.root
          /\ nodes' = c.nodes
          /\ data' = c.data
          /\ calls' = calls + 1

(***************************************************************************)
(* The specification                                                       *)
(***************************************************************************)
\* the configurations explored: depthMax and objectsThreshold
DepthMaxes == {-1, 0, 1}
Thresholds == {1, 2}

Init ==
    /\ depthMax \in DepthMaxes
    /\ objectsThreshold \in Thresholds
    /\ objects = << >>
    /\ objectsData = << >>
    /\ root = 1
    /\ nodes = << OctreeNode(<< >>, <<0, 0, 0>>, RootRadius, NoIndex, NoNode) >>
    /\ data = [d \in DataIds |-> FreeData]
    /\ calls = 0
    /\ objectsDeferred = << >>

\* octree.add( object, useFaces ), the host having placed the object at w
Add(s, withFaces, w) ==
    /\ Returns(add(State, s, withFaces, w))
    /\ UNCHANGED <<depthMax, objectsThreshold, objectsDeferred>>

\* octree.remove( object )
Remove(s) ==
    /\ Returns(remove(State, s, FALSE))
    /\ UNCHANGED <<depthMax, objectsThreshold, objectsDeferred>>

\* the host scenes an update can meet: a placement for every source
Worlds == [Sources -> Placements]

\* octree.update(), the host having moved its objects to w
Update(w) ==
    /\ Returns(update(State, w))
    /\ UNCHANGED <<depthMax, objectsThreshold, objectsDeferred>>

\* the searches a host makes: the query spheres, without a direction, and
\* the rays
Searches ==
    { [position |-> q.position, radius |-> q.radius, direction |-> NoDirection] : q \in Queries }
        \cup Rays

\* the heap st is what a search leaves: the host goes on with it
Searched(st) ==
    /\ st.err = ""
    /\ LET c == Canon(st)
       IN /\ objects' = c.objects
          /\ objectsData' = c.objectsData
          /\ root' = c.root
          /\ nodes' = c.nodes
          /\ data' = c.data

\* octree.search( position, radius, organizeByObject, direction )
Search(q, organizeByObject) ==
    /\ Searched(search_by(State, q.position, q.radius, organizeByObject, q.direction))
    /\ UNCHANGED <<depthMax, objectsThreshold, calls, objectsDeferred>>

Next ==
    \/ \E s \in Sources, withFaces \in BOOLEAN, w \in Placements : Add(s, withFaces, w)
    \/ \E s \in Sources : Remove(s)
    \/ \E w \in Worlds : Update(w)
    \/ \E q \in Searches, organizeByObject \in BOOLEAN : Search(q, organizeByObject)

Spec == Init /\ [][Next]_vars

(***************************************************************************)
(* Deferred insertion (the r60 revision: octree.undeferred != true)        *)
(***************************************************************************)
\* the number of additions that can wait for one update
MaxDeferred == 2

\* add, insertion deferred: the object and its options join objectsDeferred
add_deferred(deferred, object, withFaces) ==
    Append(deferred, [object |-> object, useFaces |-> withFaces])

RECURSIVE InsertDeferred(_, _, _, _)
\* update: every deferred object is inserted, in the order of the calls of
\* add, at the place w the host gives it by then
InsertDeferred(st, deferred, i, w) ==
    IF i > Len(deferred) THEN st
    ELSE InsertDeferred(add(st, deferred[i].object, deferred[i].useFaces,
                            w[deferred[i].object]),
                        deferred, i + 1, w)

\* update() / rebuild(), insertion deferred: the deferred objects are
\* inserted, then the moved objects are resynchronised
update_deferred(st, deferred, w) == update(InsertDeferred(st, deferred, 1, w), w)

\* octree.add( object, useFaces ) while octree.undeferred != true
AddDeferred(s, withFaces) ==
    /\ calls < MaxCalls
    /\ Len(objectsDeferred) < MaxDeferred
    /\ objectsDeferred' = add_deferred(objectsDeferred, s, withFaces)
    /\ calls' = calls + 1
    /\ UNCHANGED <<objects, objectsData, root, nodes, data,
                   depthMax, objectsThreshold>>

\* octree.update() / octree.rebuild() while octree.undeferred != true
UpdateDeferred(w) ==
    /\ Returns(update_deferred(State, objectsDeferred, w))
    /\ objectsDeferred' = << >>
    /\ UNCHANGED <<depthMax, objectsThreshold>>

NextDeferred ==
    \/ \E s \in Sources, withFaces \in BOOLEAN : AddDeferred(s, withFaces)
    \/ \E s \in Sources : Remove(s)
    \/ \E w \in Worlds : UpdateDeferred(w)
    \/ \E q \in Searches, organizeByObject \in BOOLEAN : Search(q, organizeByObject)

SpecDeferred == Init /\ [][NextDeferred]_vars

(***************************************************************************)
(* One node and one object: octant_index and branch on their own           *)
(***************************************************************************)
\* the coordinates tried for the object: around the centre of a node of
\* radius RootRadius, the edges of its overlap band and its bounds
Coordinates == {-289, -288, -73, -72, -71, 0, 71, 72, 73, 288, 289}

\* the bounding radii tried for the object
Radii == {0, 1, 10, 300}

\* a fresh octree and one descriptor, not yet added
InitNode ==
    /\ depthMax \in DepthMaxes
    /\ objectsThreshold \in Thresholds
    /\ objects = << >>
    /\ objectsData = << >>
    /\ root = 1
    /\ nodes = << OctreeNode(<< >>, <<0, 0, 0>>, RootRadius, NoIndex, NoNode) >>
    /\ \E x \in Coordinates, y \in Coordinates, z \in Coordinates, r \in Radii :
          data = [d \in DataIds |->
                     IF d = 1
                     THEN OctreeObjectData(1, NoFace, [position |-> <<x, y, z>>, radius |-> r])
                     ELSE FreeData]
    /\ calls = 0
    /\ objectsDeferred = << >>

\* root.octant_index( objectData )
Classify ==
    /\ calls = 0
    /\ data' = classify(State, root, 1).data
    /\ calls' = 1
    /\ UNCHANGED <<objects, objectsData, root, nodes, depthMax, objectsThreshold,
                   objectsDeferred>>

\* root.branch( indexOctant ) for the octant the object was classified into
Branch ==
    /\ calls = 1
    /\ data[1].indexOctant > INDEX_INSIDE_CROSS
    /\ nodes' = branch(State, root, data[1].indexOctant).nodes
    /\ calls' = 2
    /\ UNCHANGED <<objects, objectsData, root, data, depthMax, objectsThreshold,
                   objectsDeferred>>

NextNode == Classify \/ Branch

SpecNode == InitNode /\ [][NextNode]_vars

(***************************************************************************)
(* The tree as a search walks it                                           *)
(***************************************************************************)
\* the nodes reachable from the current root, parents first
Reachable == Preorder(nodes, root)

\* the directObjects of every reachable node, in that order
TreeObjects == Listed(nodes, Reachable, 1)

(***************************************************************************)
(* Properties                                                              *)
(***************************************************************************)
\* C1: after any sequence of add, remove and update the descriptors of the
\* registry are exactly the descriptors listed by the nodes reachable from
\* the root: no registered descriptor is an orphan, no listed descriptor is
\* unregistered.
RegistryIsTree == Range(objectsData) = Range(TreeObjects)

\* the number of times the reachable nodes list d
Listings(d) == Cardinality({i \in 1..Len(TreeObjects) : TreeObjects[i] = d})

\* C2: after every add, remove or update each registered descriptor is
\* listed by exactly one reachable node, exactly once, whatever depthMax is.
ListedExactlyOnce == \A d \in Range(objectsData) : Listings(d) = 1

\* the bounding sphere of descriptor d meets the sphere q
SpheresMeet(d, q) ==
    LET dx == data[d].position[1] - q.position[1]
        dy == data[d].position[2] - q.position[2]
        dz == data[d].position[3] - q.position[3]
    IN dx * dx + dy * dy + dz * dz
          <= (data[d].radius + q.radius) * (data[d].radius + q.radius)

\* C3: sphere search has no false negatives: a registered descriptor whose
\* bounding sphere meets the query sphere is in the result of search.
SearchFindsAll ==
    \A q \in Queries : \A d \in Range(objectsData) :
        SpheresMeet(d, q) => d \in Range(search(State, q.position, q.radius))

\* SearchFindsAll where the tree lists every registered descriptor once
SearchFindsListed == (RegistryIsTree /\ ListedExactlyOnce) => SearchFindsAll

\* the descriptors the heap st holds in its registry or lists in a node
\* reachable from its root
Held(st) == Range(st.objectsData) \cup Range(Listed(st.nodes, Preorder(st.nodes, st.root), 1))

\* C4: after remove( source ) of a registered source no descriptor of that
\* source is left in the registry or in a reachable node, for whole-object
\* and for face-decomposed sources.
RemoveClearsSource ==
    \A s \in Range(objects) :
        LET st == remove(State, s, FALSE)
        IN st.err = "" => \A d \in Held(st) : st.data[d].object # s

\* RemoveClearsSource where the tree lists every registered descriptor once
RemoveClearsListed == (RegistryIsTree /\ ListedExactlyOnce) => RemoveClearsSource

\* the heap st is the current heap: the source list, the registry, the
\* root, every node with its children and its objects, every descriptor
SameHeap(st) ==
    /\ st.err = ""
    /\ st.objects = objects
    /\ st.objectsData = objectsData
    /\ st.root = root
    /\ st.nodes = nodes
    /\ st.data = data

\* C5: add( source ) of a source that is already registered changes
\* nothing: source list, registry, root, every node's children and objects.
AddRegisteredNoOp ==
    \A s \in Range(objects) : \A withFaces \in BOOLEAN : \A w \in Placements :
        SameHeap(add(State, s, withFaces, w))

\* add of a registered source is called on a tree that has split
AddRegisteredCase ==
    /\ Len(nodes[root].nodesIndices) > 0
    /\ \E s \in Range(objects) : \E w \in Placements :
          /\ \E d \in Range(objectsData) : data[d].object = s /\ data[d].position # w.position
          /\ SameHeap(add(State, s, FALSE, w))

\* C6: remove( source ) of a source that is not registered raises no error
\* and changes nothing: registry, root, tree structure, every node's objects.
RemoveUnregisteredNoOp ==
    \A s \in Sources \ Range(objects) : SameHeap(remove(State, s, FALSE))

\* remove of an unregistered source is called on a tree that has split and
\* holds another source
RemoveUnregisteredCase ==
    /\ Len(nodes[root].nodesIndices) > 0
    /\ objects # << >>
    /\ \E s \in Sources \ Range(objects) : SameHeap(remove(State, s, FALSE))

\* the nodes the root of st reaches, parents first, each as its geometry
\* and its directObjects
TreeView(st) ==
    LET order == Preorder(st.nodes, st.root)
    IN Tabulate([i \in 1..Len(order) |->
           [position |-> st.nodes[order[i]].position,
            radius |-> st.nodes[order[i]].radius,
            objects |-> st.nodes[order[i]].objects]])

\* add( s ) at placement w followed at once by remove( s )
RoundTrip(s, withFaces, w) == remove(add(State, s, withFaces, w), s, FALSE)

\* C7 as stated: add( E ) of an unregistered E followed by remove( E )
\* restores the registry and every node's directObjects: same nodes, same
\* membership, same counts.
RoundTripRestoresTree ==
    \A s \in Sources \ Range(objects) : \A withFaces \in BOOLEAN : \A w \in Placements :
        LET st == RoundTrip(s, withFaces, w)
        IN st.err = "" =>
              /\ st.objects = objects
              /\ st.objectsData = objectsData
              /\ TreeView(st) = TreeView(State)

\* C7 amended: add( E ) of an unregistered E followed by remove( E )
\* restores the source list and the registry; the nodes may differ.
RoundTripRestoresRegistry ==
    \A s \in Sources \ Range(objects) : \A withFaces \in BOOLEAN : \A w \in Placements :
        LET st == RoundTrip(s, withFaces, w)
        IN st.err = "" => st.objects = objects /\ st.objectsData = objectsData

\* RoundTripRestoresTree where the tree lists every registered descriptor once
RoundTripListed == (RegistryIsTree /\ ListedExactlyOnce) => RoundTripRestoresTree

\* the position of descriptor d lies within the overlap-inclusive bounds of
\* node n on every axis
Within(d, n) ==
    \A axis \in 1..3 :
        /\ Low(nodes[n], axis) <= data[d].position[axis]
        /\ data[d].position[axis] <= High(nodes[n], axis)

\* C8: for every reachable node other than the root and every descriptor
\* held anywhere in its subtree, the descriptor's position lies within the
\* node's overlap-inclusive bounds.
Containment ==
    \A i \in 2..Len(Reachable) :
        \A d \in Range(objects_end(nodes, Reachable[i])) : Within(d, Reachable[i])

\* Containment where the tree lists every registered descriptor once
ContainmentListed == (RegistryIsTree /\ ListedExactlyOnce) => Containment

\* C9: after any add, remove or update every reachable node whose depth is
\* below depthMax (any node when depthMax is negative) has at most
\* objectsThreshold direct objects.
ThresholdKept ==
    \A i \in 1..Len(Reachable) :
        (depthMax < 0 \/ nodes[Reachable[i]].depth < depthMax)
            => Len(nodes[Reachable[i]].objects) <= objectsThreshold

\* ThresholdKept where the tree lists every registered descriptor once
ThresholdListed == (RegistryIsTree /\ ListedExactlyOnce) => ThresholdKept

\* the results of every query on the heap st
Results(st) == [q \in Queries |-> search(st, q.position, q.radius)]

\* the heaps a and b have the same source list, registry, root, nodes
\* (children and directObjects) and descriptors, and answer every query alike
SameTree(a, b) ==
    /\ a.objects = b.objects
    /\ a.objectsData = b.objectsData
    /\ a.root = b.root
    /\ a.nodes = b.nodes
    /\ a.data = b.data
    /\ Results(a) = Results(b)

\* update() called again on the heap st with the host scene w unchanged
UpdateAgain(st, w) == st.err = "" => (update(st, w).err = "" /\ SameTree(update(st, w), st))

\* C10: when no position or radius changes between two consecutive
\* update() calls, the second leaves the root, the node structure and every
\* node's directObjects as the first left them, and every search returns
\* the same result.
UpdateIdempotent == \A w \in Worlds : UpdateAgain(update(State, w), w)

\* the first update() moved a descriptor to another node of a tree that has
\* split, and the second update() left that tree as it was
UpdateIdempotentCase ==
    \E w \in Worlds :
        /\ update(State, w).err = ""
        /\ Len(update(State, w).nodes) > 1
        /\ TreeView(update(State, w)) # TreeView(State)
        /\ UpdateAgain(update(State, w), w)

\* the heap st is one node: its root has no child and lists exactly the
\* descriptors of its registry, each once
SingleNode(st) ==
    /\ Len(st.nodes[st.root].nodesIndices) = 0
    /\ Len(st.nodes[st.root].objects) = Len(st.objectsData)
    /\ Range(st.nodes[st.root].objects) = Range(st.objectsData)

\* remove( s ) called on the heap st leaves fewer descriptors than the
\* threshold
RemoveLeavesFew(st) == st.err = "" /\ Len(st.objectsData) < objectsThreshold

\* C11: whenever remove of a registered source returns and fewer descriptors
\* than objectsThreshold remain, the tree is a single node: the root has no
\* children and its directObjects are exactly the remaining descriptors.
RemoveCollapses ==
    \A s \in Range(objects) :
        RemoveLeavesFew(remove(State, s, FALSE)) => SingleNode(remove(State, s, FALSE))

\* RemoveCollapses where the tree lists every registered descriptor once
RemoveCollapsesListed == (RegistryIsTree /\ ListedExactlyOnce) => RemoveCollapses

\* the extent of the placement w (position +/- radius) exceeds the bounds of
\* the node: octant_index gives an outside index
Outside(node, w) == octant_index(node, w.position, w.radius) < INDEX_INSIDE_CROSS

\* the heap st, left by an add of a source placed at w, has a root larger
\* than the current one whose bounds hold the whole extent of w
RootHolds(st, w) ==
    st.err = "" =>
        /\ st.nodes[st.root].radius > nodes[root].radius
        /\ ~Outside(st.nodes[st.root], w)

\* C12: adding one source whose extent exceeds the root's bounds makes expand
\* fire during that add: when add returns the root is a larger node whose
\* bounds contain the whole extent, however many objects the root held.
AddOutsideExpands ==
    \A s \in Sources \ Range(objects) : \A w \in Placements :
        Outside(nodes[root], w) => RootHolds(add(State, s, FALSE, w), w)

\* AddOutsideExpands where the tree lists every registered descriptor once
AddOutsideExpandsListed == (RegistryIsTree /\ ListedExactlyOnce) => AddOutsideExpands

\* a whole-object add of a source placed at w ends in the root's own objects
\* and takes their number over the threshold, the root being below depthMax
RootGrows(w) ==
    /\ depthMax < 0 \/ nodes[root].depth < depthMax
    /\ Len(nodes[root].objects) + 1 > objectsThreshold
    /\ \/ octant_index(nodes[root], w.position, w.radius) <= INDEX_INSIDE_CROSS
       \/ Len(nodes[root].nodesIndices) = 0

\* the octant of the node n of the heap st that descriptor d classifies into
OctantOf(st, n, d) == octant_index(st.nodes[n], st.data[d].position, st.data[d].radius)

\* in the heap st, left by an add that made the node n grow, every object n
\* held (the added one included) that classifies into an octant k of n is in
\* the subtree of n's child at k, and the objects n still lists straddle
Grown(st, n) ==
    st.err = "" =>
        /\ \A d \in Range(nodes[n].objects) \cup (Range(st.objectsData) \ Range(objectsData)) :
               OctantOf(st, n, d) > INDEX_INSIDE_CROSS =>
                   /\ st.nodes[n].nodesByIndex[OctantOf(st, n, d)] # NoNode
                   /\ d \in Range(objects_end(st.nodes, st.nodes[n].nodesByIndex[OctantOf(st, n, d)]))
        /\ \A d \in Range(st.nodes[n].objects) : OctantOf(st, n, d) = INDEX_INSIDE_CROSS

\* C13: when an add takes a node's directObjects over the threshold and the
\* node is below depthMax, grow moves every direct object that classifies
\* into one octant k into the child at octant k, created if missing, and
\* leaves only straddling objects in the node.
GrowSplits ==
    \A s \in Sources \ Range(objects) : \A w \in Placements :
        RootGrows(w) => Grown(add(State, s, FALSE, w), root)

\* GrowSplits where the tree lists every registered descriptor once
GrowSplitsListed == (RegistryIsTree /\ ListedExactlyOnce) => GrowSplits

\* neither the placement w nor an object the root lists is outside the
\* root's bounds
NoneOutside(w) ==
    /\ ~Outside(nodes[root], w)
    /\ \A d \in Range(nodes[root].objects) : OctantOf(State, root, d) >= INDEX_INSIDE_CROSS

\* GrowSplits where no object of the growing node is outside its bounds, so
\* that grow does not expand
GrowSplitsInside ==
    \A s \in Sources \ Range(objects) : \A w \in Placements :
        (RootGrows(w) /\ NoneOutside(w)) => Grown(add(State, s, FALSE, w), root)

\* C14: sphere search has no false positives: every descriptor returned by
\* search( position, radius ) has a bounding sphere that meets the query
\* sphere.
SearchOnlyMeeting ==
    \A q \in Queries : \A d \in Range(search(State, q.position, q.radius)) :
        SpheresMeet(d, q)

\* SearchOnlyMeeting where the tree lists every registered descriptor once
SearchOnlyMeetingListed == (RegistryIsTree /\ ListedExactlyOnce) => SearchOnlyMeeting

\* the heap st, left by a search, is the current heap, and the same search
\* made again on it gives the same result
SearchLeaves(st, q, organizeByObject) ==
    /\ st.err = ""
    /\ SameHeap(st)
    /\ search_by(st, q.position, q.radius, organizeByObject, q.direction).ret = st.ret

\* C15: search, by sphere or by ray, flat or organized by object, leaves the
\* tree as it was (registry, root, nodes, every node's directObjects, every
\* descriptor's position, node and octant index), so the same search made
\* twice in a row returns the same result.
SearchChangesNothing ==
    \A q \in Searches : \A organizeByObject \in BOOLEAN :
        SearchLeaves(search_by(State, q.position, q.radius, organizeByObject, q.direction),
                     q, organizeByObject)

\* a ray search of a tree that has split found objects in a node below the
\* root, and left the tree as it was
SearchChangesNothingCase ==
    \E q \in Rays :
        /\ Len(nodes[root].nodesIndices) > 0
        /\ Len(search_by(State, q.position, q.radius, FALSE, q.direction).ret)
              > Len(nodes[root].objects)
        /\ SearchLeaves(search_by(State, q.position, q.radius, TRUE, q.direction), q, TRUE)

\* the faces of the descriptors of source s among the descriptors objs, in
\* the order of objs
FacesFound(objs, s) ==
    LET ofSource(d) == data[d].object = s /\ data[d].faces # NoFace
        found == SelectSeq(objs, ofSource)
    IN [k \in 1..Len(found) |-> data[found[k]].faces]

\* the groups results are the descriptors objs organized by object: one
\* group for each source among objs and no other, no source in two groups,
\* each group with exactly the faces of its source's descriptors
Grouped(results, objs) ==
    /\ {results[k].object : k \in 1..Len(results)} = {data[d].object : d \in Range(objs)}
    /\ \A j, k \in 1..Len(results) : results[j].object = results[k].object => j = k
    /\ \A k \in 1..Len(results) : results[k].faces = FacesFound(objs, results[k].object)

\* C16: search( position, radius, true ) returns exactly one group for each
\* distinct source among the descriptors search( position, radius, false )
\* returns; a group's faces are exactly the faces of that source's returned
\* descriptors (none for a whole-object descriptor); no source has two groups.
SearchGroups ==
    \A q \in Searches :
        Grouped(search_by(State, q.position, q.radius, TRUE, q.direction).ret,
                search_by(State, q.position, q.radius, FALSE, q.direction).ret)

\* a search organized by object returned two groups, one with two faces and
\* one of a whole object
SearchGroupsCase ==
    \E q \in Searches :
        /\ Len(search_by(State, q.position, q.radius, TRUE, q.direction).ret) = 2
        /\ \E k \in 1..2 :
              Len(search_by(State, q.position, q.radius, TRUE, q.direction).ret[k].faces) = 2
        /\ \E k \in 1..2 :
              Len(search_by(State, q.position, q.radius, TRUE, q.direction).ret[k].faces) = 0
        /\ Grouped(search_by(State, q.position, q.radius, TRUE, q.direction).ret,
                   search_by(State, q.position, q.radius, FALSE, q.direction).ret)

RECURSIVE Levels(_, _, _)
\* the number of levels below the nodes of the list ns[n].nodesIndices[i..]:
\* 0 when there are none
Levels(ns, n, i) ==
    IF i > Len(ns[n].nodesIndices) THEN 0
    ELSE Max(1 + Levels(ns, ChildAt(ns, n, i), 1), Levels(ns, n, i + 1))

\* C17: when depthMax is not negative, after any sequence of add, remove and
\* update no node reachable from the root is deeper than depthMax, by its
\* depth property or by its distance from the root.
DepthKept ==
    depthMax >= 0 =>
        /\ Levels(nodes, root, 1) <= depthMax
        /\ \A i \in 1..Len(Reachable) : nodes[Reachable[i]].depth <= depthMax

\* DepthKept where the tree lists every registered descriptor once
DepthKeptListed == (RegistryIsTree /\ ListedExactlyOnce) => DepthKept

\* depthMax is set and a node at depthMax holds more objects than the
\* threshold: the cap kept it from splitting
DepthKeptCase ==
    /\ depthMax >= 0
    /\ \E i \in 1..Len(Reachable) :
          /\ nodes[Reachable[i]].depth = depthMax
          /\ Len(nodes[Reachable[i]].objects) > objectsThreshold
    /\ DepthKept

\* the objects the node n holds once the add that left the heap st has put
\* its new descriptors in: those n listed, and the new ones whose node is n
HeldBeforeGrow(st, n) ==
    Range(nodes[n].objects)
        \cup {d \in Range(st.objectsData) \ Range(objectsData) : st.data[d].node = n}

\* in the heap st, left by an add that took the node n over the threshold,
\* n lists exactly the objects it held, each once, and has no child
LeftInPlace(st, n) ==
    (/\ st.err = ""
     /\ HeldBeforeGrow(st, n) # Range(nodes[n].objects)
     /\ Cardinality(HeldBeforeGrow(st, n)) > objectsThreshold)
        => /\ Range(st.nodes[n].objects) = HeldBeforeGrow(st, n)
           /\ Len(st.nodes[n].objects) = Cardinality(HeldBeforeGrow(st, n))
           /\ Len(st.nodes[n].nodesIndices) = 0

\* C18: when an add takes a node at depthMax over the threshold, grow leaves
\* its objects in place: after the add the node lists exactly the objects it
\* held before the grow, each once, and no child was created, also when
\* some of them straddle the centre or lie outside the node's bounds.
CappedGrowKeeps ==
    depthMax >= 0 =>
        \A i \in 1..Len(Reachable) :
            nodes[Reachable[i]].depth = depthMax =>
                \A s \in Sources \ Range(objects) : \A withFaces \in BOOLEAN : \A w \in Placements :
                    LeftInPlace(add(State, s, withFaces, w), Reachable[i])

\* CappedGrowKeeps where the tree lists every registered descriptor once
CappedGrowKeepsListed == (RegistryIsTree /\ ListedExactlyOnce) => CappedGrowKeeps

\* with the source s placed at w, more whole objects than the threshold
\* share one position with radius 0, and there is a free descriptor for s
Coincident(s, w) ==
    /\ s \notin Range(objects)
    /\ w.radius = 0
    /\ \E d \in DataIds : data[d].object = NoSource
    /\ Cardinality({d \in Range(objectsData) :
                       /\ data[d].position = w.position
                       /\ data[d].radius = 0
                       /\ data[d].faces = NoFace}) + 1 > objectsThreshold

\* C19: every add, remove and update comes to rest, also when depthMax is
\* unbounded and more objects than the threshold share one position with
\* radius 0: the add of the last of them returns, the add_object / grow /
\* split recursion having reached a node where no further step is taken.
CoincidentAddEnds ==
    depthMax < 0 =>
        \A s \in Sources : \A w \in Placements :
            Coincident(s, w) => add(State, s, FALSE, w).err = ""

\* CoincidentAddEnds where the tree lists every registered descriptor once
CoincidentAddEndsListed == (RegistryIsTree /\ ListedExactlyOnce) => CoincidentAddEnds

\* the negative radii a host may pass to search
BadRadii == {-1, -50}

\* C20: search called with a negative radius fails with an explicit
\* invalid-argument signal instead of returning a result, and leaves the
\* tree as it was.
SearchRejects ==
    \A q \in Queries : \A radius \in BadRadii : \A organizeByObject \in BOOLEAN :
        /\ search_by(State, q.position, radius, organizeByObject, NoDirection).err # ""
        /\ SameTree(search_by(State, q.position, radius, organizeByObject, NoDirection), State)

(***************************************************************************)
(* The constructor's parameters as JavaScript values                       *)
(***************************************************************************)
\* a number, as the fraction num / den
Num(num, den) == [kind |-> "number", num |-> num, den |-> den]
\* a value that is not a finite number: undefined, null, NaN, Infinity, a
\* boolean, a string (text is what the string holds)
Other(kind, text) == [kind |-> kind, text |-> text]

\* the values a host passes for an option
Values ==
    { Num(-1, 1), Num(0, 1), Num(2, 1), Num(216, 1), Num(1, 3),
      Other("undefined", ""), Other("null", ""), Other("NaN", ""),
      Other("Infinity", ""), Other("boolean", "true"),
      Other("string", "abc"), Other("string", "5"), Other("string", "") }

\* ToNumber of the language: what isNaN, isFinite and > see of a value
ToNumber(v) ==
    CASE v.kind = "number" -> v
      [] v.kind = "null" -> Num(0, 1)
      [] v.kind = "boolean" -> Num(1, 1)
      [] v.kind = "string" /\ v.text = "" -> Num(0, 1)
      [] v.kind = "string" /\ v.text = "5" -> Num(5, 1)
      [] v.kind = "Infinity" -> v
      [] OTHER -> Other("NaN", "")

\* is_number: !isNaN( n ) && isFinite( n )
is_number(v) == ToNumber(v).kind = "number"

\* parameters.radius > 0
Positive(v) ==
    \/ ToNumber(v).kind = "Infinity"
    \/ ToNumber(v).kind = "number" /\ ToNumber(v).num > 0

\* new THREE.Octree( parameters ): the options the tree and its root keep
Octree(parameters) ==
    [depthMax |-> IF is_number(parameters.depthMax) THEN parameters.depthMax ELSE Num(-1, 1),
     objectsThreshold |-> IF is_number(parameters.objectsThreshold)
                          THEN parameters.objectsThreshold ELSE Num(8, 1),
     overlapPct |-> IF is_number(parameters.overlapPct)
                    THEN parameters.overlapPct ELSE Num(3, 20),
     radius |-> IF is_number(parameters.radius) /\ Positive(parameters.radius)
                THEN parameters.radius ELSE Num(1, 1)]

\* the parameter objects a host passes
Parameters == [depthMax : Values, objectsThreshold : Values, overlapPct : Values, radius : Values]

\* the option value is a finite number
WellFormed(v) == v.kind = "number"

\* the option value v, when it is a number, is the one the tree has
Given(v, current) == v.kind = "number" => v = Num(current, 1)

\* C21: at construction every malformed option is replaced by its default:
\* a radius that is not a finite number or is not > 0 becomes 1, a
\* non-numeric objectsThreshold becomes 8, a non-numeric overlapPct becomes
\* 0.15, a non-numeric depthMax becomes -1; numeric values are kept.
ConstructorDefaults ==
    \A parameters \in Parameters :
      (Given(parameters.depthMax, depthMax) /\ Given(parameters.objectsThreshold, objectsThreshold)) =>
        /\ Octree(parameters).radius =
              IF WellFormed(parameters.radius) /\ parameters.radius.num > 0
              THEN parameters.radius ELSE Num(1, 1)
        /\ Octree(parameters).objectsThreshold =
              IF WellFormed(parameters.objectsThreshold)
              THEN parameters.objectsThreshold ELSE Num(8, 1)
        /\ Octree(parameters).overlapPct =
              IF WellFormed(parameters.overlapPct) THEN parameters.overlapPct ELSE Num(3, 20)
        /\ Octree(parameters).depthMax =
              IF WellFormed(parameters.depthMax) THEN parameters.depthMax ELSE Num(-1, 1)

(***************************************************************************)
(* Deferred insertion                                                      *)
(***************************************************************************)
\* the descriptors of source s that a node reachable from st's root lists
ListedOf(st, s) ==
    {d \in Range(Listed(st.nodes, Preorder(st.nodes, st.root), 1)) : st.data[d].object = s}

\* some search of st, by sphere or by ray, returns a descriptor of source s
Found(st, s) ==
    \E q \in Searches :
        \E d \in Range(search_by(st, q.position, q.radius, FALSE, q.direction).ret) :
            st.data[d].object = s

\* the bounding sphere of the descriptor od meets the sphere q
SphereMeets(od, q) ==
    LET dx == od.position[1] - q.position[1]
        dy == od.position[2] - q.position[2]
        dz == od.position[3] - q.position[3]
    IN dx * dx + dy * dy + dz * dz <= (od.radius + q.radius) * (od.radius + q.radius)

\* the deferred sources that were not in the tree when add was called
Waiting == {objectsDeferred[i].object : i \in 1..Len(objectsDeferred)} \ Range(objects)

\* the descriptors the first deferred add of source s asks for: one for the
\* whole object, or one for each face
Asked(s) ==
    LET i == CHOOSE k \in 1..Len(objectsDeferred) :
                 /\ objectsDeferred[k].object = s
                 /\ \A j \in 1..(k - 1) : objectsDeferred[j].object # s
    IN IF objectsDeferred[i].useFaces THEN Len(FacesOf(s)) ELSE 1

\* source s is inserted in st and searchable: it is registered with the
\* descriptors asked for, a reachable node lists each of them and a sphere
\* search meeting one of them returns it
Inserted(st, s) ==
    /\ IndexOf(st.objects, s) # 0
    /\ Cardinality({i \in 1..Len(st.objectsData) :
                       st.data[st.objectsData[i]].object = s}) = Asked(s)
    /\ \A i \in 1..Len(st.objectsData) :
          LET d == st.objectsData[i]
          IN st.data[d].object = s =>
                /\ d \in ListedOf(st, s)
                /\ \A q \in Queries :
                      SphereMeets(st.data[d], q)
                          => d \in Range(search(st, q.position, q.radius))

\* the update st inserted every source of the set waiting
InsertedAll(st, waiting) == st.err = "" => \A s \in waiting : Inserted(st, s)

\* C22: with insertion deferred, a source passed to add is only queued: no
\* reachable node lists a descriptor of it and no search returns it, until
\* the next update() / rebuild(), after which it is inserted and searchable.
DeferredUntilUpdate ==
    /\ \A s \in Waiting : ListedOf(State, s) = {} /\ ~Found(State, s)
    /\ \A w \in Worlds : InsertedAll(update_deferred(State, objectsDeferred, w), Waiting)

\* a source waits for the update that inserts it
DeferredCase == Waiting # {}

\* the heap st lists every registered descriptor in exactly one reachable
\* node, once, and lists nothing else
WellListed(st) ==
    LET listed == Listed(st.nodes, Preorder(st.nodes, st.root), 1)
    IN /\ Range(st.objectsData) = Range(listed)
       /\ Len(listed) = Len(st.objectsData)

\* InsertedAll where the update left no orphan and no duplicate
InsertedListed(st, waiting) == WellListed(st) => InsertedAll(st, waiting)

\* DeferredUntilUpdate where the update leaves a tree that lists every
\* registered descriptor once; the insertion of the deferred sources alone,
\* before the moved objects are resynchronised, always inserts them
DeferredUntilUpdateListed ==
    /\ \A s \in Waiting : ListedOf(State, s) = {} /\ ~Found(State, s)
    /\ \A w \in Worlds : InsertedAll(InsertDeferred(State, objectsDeferred, 1, w), Waiting)
    /\ \A w \in Worlds : InsertedListed(update_deferred(State, objectsDeferred, w), Waiting)

(***************************************************************************)
(* Search along a ray                                                      *)
(***************************************************************************)
\* the segment of the ray q passes through the bounding sphere of the
\* descriptor d: the point of the segment closest to d's centre is within
\* d's radius (both sides times the square of the direction's denominator)
RayMeets(d, q) ==
    LET scale == q.direction[4] * q.direction[4]
        p == ClosestPoint(data[d].position, q.position, q.direction, q.radius)
        dx == p[1] - data[d].position[1] * scale
        dy == p[2] - data[d].position[2] * scale
        dz == p[3] - data[d].position[3] * scale
    IN dx * dx + dy * dy + dz * dz <= data[d].radius * data[d].radius * scale * scale

\* C23: ray search has no false negatives: for a ray of origin, unit
\* direction and far > 0, every registered descriptor whose bounding sphere
\* the ray passes through is in the result, also when the ray only clips a
\* corner of the node that lists it.
RaySearchFindsAll ==
    \A q \in Rays : \A d \in Range(objectsData) :
        (q.radius > 0 /\ RayMeets(d, q))
            => d \in Range(search_by(State, q.position, q.radius, FALSE, q.direction).ret)

\* RaySearchFindsAll where the tree lists every registered descriptor once,
\* inside the bounds of its node
RaySearchFindsListed ==
    (RegistryIsTree /\ ListedExactlyOnce /\ Containment) => RaySearchFindsAll

(***************************************************************************)
(* Expand                                                                  *)
(***************************************************************************)
\* every run of expand in the call that left st was on the node that was the
\* root by then, and left every node reachable that was reachable before it
OnRoot(st) ==
    st.err = "" =>
        \A i \in 1..Len(st.expanded) :
            st.expanded[i].node = st.expanded[i].root /\ st.expanded[i].kept

\* C24: expand only ever runs on the current root, in add and in the
\* re-insertion phase of update, and installing the new parent as the root
\* never detaches a node that was reachable.
ExpandOnlyRoot ==
    /\ \A s \in Sources, withFaces \in BOOLEAN, w \in Placements :
          OnRoot(add(State, s, withFaces, w))
    /\ \A w \in Worlds : OnRoot(update(State, w))

\* ExpandOnlyRoot where the tree lists every registered descriptor once,
\* inside the bounds of its node
ExpandOnlyRootListed ==
    (RegistryIsTree /\ ListedExactlyOnce /\ Containment) => ExpandOnlyRoot

\* expand never runs outside the root while an object is added
ExpandOnlyRootAdd ==
    \A s \in Sources, withFaces \in BOOLEAN, w \in Placements :
        OnRoot(add(State, s, withFaces, w))

(***************************************************************************)
(* Where a node keeps an object                                            *)
(***************************************************************************)
\* the node n keeps the descriptor d for a reason: d straddles n's octants,
\* or d classifies into an octant of n that has no child
KeptHere(n, d) ==
    LET indexOctant == OctantOf(State, n, d)
    IN \/ indexOctant = INDEX_INSIDE_CROSS
       \/ /\ indexOctant > INDEX_INSIDE_CROSS
          /\ nodes[n].nodesByIndex[indexOctant] = NoNode

\* C25: every descriptor a reachable node lists either straddles relative to
\* that node or classifies into an octant for which the node has no child,
\* also after merge and contract and after a later add created the child.
DirectObjectsPlaced ==
    \A i \in 1..Len(Reachable) :
        \A d \in Range(nodes[Reachable[i]].objects) : KeptHere(Reachable[i], d)

\* no descriptor a reachable node lists classifies outside that node
NoneListedOutside ==
    \A i \in 1..Len(Reachable) :
        \A d \in Range(nodes[Reachable[i]].objects) :
            OctantOf(State, Reachable[i], d) >= INDEX_INSIDE_CROSS

\* DirectObjectsPlaced where the tree lists every registered descriptor once
\* and none outside the node that lists it
DirectObjectsPlacedListed ==
    (RegistryIsTree /\ ListedExactlyOnce /\ NoneListedOutside) => DirectObjectsPlaced

(***************************************************************************)
(* octant_index                                                            *)
(***************************************************************************)
\* the object of descriptor od reaches beyond the bounds of node on the axis
Exceeds(node, od, axis) ==
    Abs(od.position[axis] - node.position[axis]) + od.radius > node.radiusOverlap

\* the index of a descriptor classified against node is of exactly one of
\* three kinds: an octant, the straddle code, or an outside code; it is an
\* outside code exactly when the object exceeds the bounds on some axis, and
\* then the flags it decodes to hold, for each axis, the positive flag when
\* the axis is exceeded and delta > 0, the negative flag when it is exceeded
\* and delta <= 0, and no flag otherwise
Partitioned(node, od) ==
    LET index == od.indexOctant
        flags == -index - INDEX_OUTSIDE_OFFSET
    IN /\ \/ index \in 0..7
          \/ index = INDEX_INSIDE_CROSS
          \/ index <= -(FLAG_POS_X + INDEX_OUTSIDE_OFFSET)
       /\ (index < INDEX_INSIDE_CROSS) <=> (\E axis \in 1..3 : Exceeds(node, od, axis))
       /\ index < INDEX_INSIDE_CROSS =>
             \A axis \in 1..3 :
                /\ HasFlag(flags, PosFlag(axis))
                      <=> (Exceeds(node, od, axis) /\ od.position[axis] > node.position[axis])
                /\ HasFlag(flags, NegFlag(axis))
                      <=> (Exceeds(node, od, axis) /\ od.position[axis] <= node.position[axis])
                /\ ~(HasFlag(flags, PosFlag(axis)) /\ HasFlag(flags, NegFlag(axis)))

\* C26: octant_index is a total three-way partition (octant 0..7, straddle
\* -1, outside code <= -4); the code is an outside code exactly when
\* |delta| + radius exceeds the overlap-inclusive radius on some axis, and
\* its flags name exactly the exceeded axes, each with the sign of delta,
\* never both flags of one axis.
OctantIndexPartitions == data[1].indexOctant # NoIndex => Partitioned(nodes[root], data[1])

\* an object level with the centre on an axis, and beyond the bounds on it,
\* was classified
OctantIndexCase ==
    /\ data[1].indexOctant < INDEX_INSIDE_CROSS
    /\ \E axis \in 1..3 :
          /\ data[1].position[axis] = nodes[root].position[axis]
          /\ Exceeds(nodes[root], data[1], axis)

(***************************************************************************)
(* branch                                                                  *)
(***************************************************************************)
\* the child the root has for the octant the object was classified into
ChildOfObject == nodes[root].nodesByIndex[data[1].indexOctant]

\* the root has branched for the object
Branched == data[1].indexOctant \in 0..7 /\ ChildOfObject # NoNode

\* C27: when a node classifies an object into octant k, the child that
\* branch( k ) creates does not classify the object as outside, so that
\* add_object cannot pass it back to the parent.
ChildTakesObject ==
    Branched =>
        octant_index(nodes[ChildOfObject], data[1].position, data[1].radius)
            >= INDEX_INSIDE_CROSS

\* the root branched for an object that touches the root's bounds
ChildTakesCase ==
    /\ Branched
    /\ \E axis \in 1..3 :
          Abs(data[1].position[axis] - nodes[root].position[axis]) + data[1].radius
              = nodes[root].radiusOverlap

\* the same for every node, descriptor and placement of the tree: the child
\* that branch creates or finds for the octant does not classify the object
\* as outside
ChildTakes(st, w) == st.err = "" => ~Outside(st.nodes[st.ret], w)

ChildTakesInTree ==
    \A i \in 1..Len(Reachable) : \A w \in Placements :
        octant_index(nodes[Reachable[i]], w.position, w.radius) > INDEX_INSIDE_CROSS
            => ChildTakes(branch(State, Reachable[i],
                                 octant_index(nodes[Reachable[i]], w.position, w.radius)), w)

(***************************************************************************)
(* intersect_sphere                                                        *)
(***************************************************************************)
\* the point of the node's overlap-inclusive box closest to position, on
\* one axis
Clamp(node, position, axis) ==
    IF position[axis] < Low(node, axis) THEN Low(node, axis)
    ELSE IF position[axis] > High(node, axis) THEN High(node, axis)
    ELSE position[axis]

\* the squared distance from position to the node's overlap-inclusive box
DistanceSquared(node, position) ==
    LET gap(axis) == position[axis] - Clamp(node, position, axis)
    IN gap(1) * gap(1) + gap(2) * gap(2) + gap(3) * gap(3)

\* C28: intersect_sphere( p, r ) is true exactly when the squared distance
\* from p to the node's overlap-inclusive box is at most r * r, for every
\* centre p of the grid and every radius r >= 0; the sphere is the bounding
\* sphere of the object.
IntersectSphereExact ==
    \A n \in 1..Len(nodes) :
        intersect_sphere(nodes[n], data[1].position, data[1].radius)
            <=> DistanceSquared(nodes[n], data[1].position) <= data[1].radius * data[1].radius

\* a sphere off a corner of the box: within its radius of the bounds on
\* every axis, and yet too far from the box
IntersectSphereCase ==
    LET node == nodes[root]
        p == data[1].position
        r == data[1].radius
    IN /\ \A a \in 1..3 : p[a] >= Low(node, a) - r /\ p[a] <= High(node, a) + r
       /\ DistanceSquared(node, p) > r * r
       /\ ~intersect_sphere(node, p, r)

(***************************************************************************)
(* The geometry of a child                                                 *)
(***************************************************************************)
\* the centre of child, held by parent for the octant indexOctant, is offset
\* from the centre of parent, on every axis, by the child's radius less the
\* child's overlap, towards the side that the bit of the octant index names
OffsetByOctant(parent, indexOctant, child) ==
    \A axis \in 1..3 :
        child.position[axis] - parent.position[axis]
            = IF Bit(indexOctant, axis - 1) = 1
              THEN child.radius - child.overlap
              ELSE -(child.radius - child.overlap)

\* the links of the tree: a reachable node, an octant and the child the
\* node holds for it
Links ==
    {link \in Range(Reachable) \X (0..7) : nodes[link[1]].nodesByIndex[link[2]] # NoNode}

\* the child of a link
ChildOf(link) == nodes[nodes[link[1]].nodesByIndex[link[2]]]

\* every child has half the radius of its parent
ChildHalfRadius ==
    \A link \in Links :
        /\ 2 * ChildOf(link).radius = nodes[link[1]].radius
        /\ OffsetByOctant(nodes[link[1]], link[2], ChildOf(link))

\* C29: every child has a radius of half its parent's overlap-inclusive
\* radius (radius + overlap), and a centre offset from the parent's by
\* +-(child radius - child overlap) on every axis, the sign given by the bit
\* of the octant index.
ChildHalfRadiusOverlap ==
    \A link \in Links :
        /\ 2 * ChildOf(link).radius = nodes[link[1]].radiusOverlap
        /\ OffsetByOctant(nodes[link[1]], link[2], ChildOf(link))

\* the tree has a child of a child
ChildCase == \E link \in Links : link[1] # root

(***************************************************************************)
(* The geometry of expand                                                  *)
(***************************************************************************)
\* the octant of the node at centre that lies towards the point target
Towards(centre, target) ==
    (IF target[1] > centre[1] THEN 1 ELSE 0)
        + (IF target[2] > centre[2] THEN 2 ELSE 0)
        + (IF target[3] > centre[3] THEN 4 ELSE 0)

\* the node by itself, as a tree: no parent, no child, no object
Alone(node) ==
    [node EXCEPT !.parent = NoNode, !.nodesIndices = << >>,
                 !.nodesByIndex = Tabulate([k \in 0..7 |-> NoNode])]

\* the child that branch creates for the octant of the node taken alone
BranchOf(node, indexOctant) ==
    LET st == branch([State EXCEPT !.nodes = <<Alone(node)>>, !.root = 1], 1, indexOctant)
    IN st.nodes[st.ret]

\* the run e of expand was on the root; the old root is the child of the
\* new root for the octant opposite to the outward direction; the new root
\* has no parent and is the root of the tree; the old root has the centre
\* and the radius branch gives a child of the new root for that octant; the
\* bounds of the new root contain the bounds of the old root
ExpandedAsBranch(e) ==
    LET new == e.nodes[e.parent]
        old == e.nodes[e.node]
        outward == Towards(old.position, new.position)
        indexOctantInverse == 7 - outward
    IN /\ e.node = e.root
       /\ new.nodesByIndex[indexOctantInverse] = e.node
       /\ old.parent = e.parent
       /\ new.parent = NoNode
       /\ e.rootAfter = e.parent
       /\ BranchOf(new, indexOctantInverse).position = old.position
       /\ BranchOf(new, indexOctantInverse).radius = old.radius
       /\ \A axis \in 1..3 : /\ Low(new, axis) <= Low(old, axis)
                             /\ High(old, axis) <= High(new, axis)

\* every run of expand in the call that left st
ExpandsAsBranch(st) ==
    st.err = "" => \A i \in 1..Len(st.expanded) : ExpandedAsBranch(st.expanded[i])

\* C30: after expand the old root is the child of the new root at the octant
\* opposite to the outward direction, the new root has no parent and is the
\* root of the tree, the old root's centre and radius are those branch would
\* give a child of the new root at that octant, and the new root's
\* overlap-inclusive bounds contain the old root's.
ExpandMirrorsBranch ==
    /\ \A s \in Sources, withFaces \in BOOLEAN, w \in Placements :
          ExpandsAsBranch(add(State, s, withFaces, w))
    /\ \A w \in Worlds : ExpandsAsBranch(update(State, w))

\* the same for the runs of expand on the root
OnRootAsBranch(st) ==
    st.err = "" =>
        \A i \in 1..Len(st.expanded) :
            st.expanded[i].node = st.expanded[i].root => ExpandedAsBranch(st.expanded[i])

ExpandMirrorsBranchOnRoot ==
    /\ \A s \in Sources, withFaces \in BOOLEAN, w \in Placements :
          OnRootAsBranch(add(State, s, withFaces, w))
    /\ \A w \in Worlds : OnRootAsBranch(update(State, w))

(***************************************************************************)
(* Growth off the root: the direction expand chooses                       *)
(***************************************************************************)
\* the coordinates tried for the objects: beyond the bounds of a root of
\* radius RootRadius on either side, or level with its centre
ExpandCoordinates == {-300, 0, 300}

ExpandPlacements ==
    { [position |-> <<x, y, z>>, radius |-> 0] :
        x \in ExpandCoordinates, y \in ExpandCoordinates, z \in ExpandCoordinates }

\* the octree starts as the heap st
Starts(st) ==
    /\ objects = st.objects
    /\ objectsData = st.objectsData
    /\ root = st.root
    /\ nodes = st.nodes
    /\ data = st.data

\* new THREE.Octree( parameters ), without objects
Fresh ==
    [objects |-> << >>, objectsData |-> << >>, root |-> 1,
     nodes |-> << OctreeNode(<< >>, <<0, 0, 0>>, RootRadius, NoIndex, NoNode) >>,
     data |-> [d \in DataIds |-> FreeData],
     err |-> "", ret |-> 0, expanded |-> << >>]

\* octree.add( object ) of a second object, unless the first one fills a node
AddSecond(st, w) ==
    IF objectsThreshold = 1 THEN st ELSE add(st, 2, FALSE, w)

\* a root that holds as many objects as its threshold lets it: each was
\* added where the host had placed it
InitExpand ==
    /\ depthMax \in {d \in DepthMaxes : d < 0}
    /\ objectsThreshold \in Thresholds
    /\ \E w1, w2 \in ExpandPlacements :
          Starts(Canon(AddSecond(add(Fresh, 1, FALSE, w1), w2)))
    /\ calls = 0
    /\ objectsDeferred = << >>

\* octree.add( object ) of one more object, placed at w: the root grows
AddOutside(w) ==
    /\ calls = 0
    /\ Returns(add(State, Len(objects) + 1, FALSE, w))
    /\ UNCHANGED <<depthMax, objectsThreshold, objectsDeferred>>

NextExpand == \E w \in ExpandPlacements : AddOutside(w)

SpecExpand == InitExpand /\ [][NextExpand]_vars

\* the axis of an outside index: 0 (x), 1 (y), 2 (z)
Axis(index) == index \div 2

RECURSIVE Greedy(_, _)
\* three outside indices taken one at a time: each time the highest count
\* among the indices whose axis is still free, the first of the list
\* +X, -X, +Y, -Y, +Z, -Z among equal counts
Greedy(count, chosen) ==
    IF Len(chosen) = 3 THEN chosen
    ELSE LET free == {k \in 0..5 : \A i \in 1..Len(chosen) : Axis(chosen[i]) # Axis(k)}
             best == CHOOSE k \in free :
                        \A j \in free \ {k} :
                            count[k] > count[j] \/ (count[k] = count[j] /\ k < j)
         IN Greedy(count, Append(chosen, best))

\* the octant of every registered descriptor as a node classifies it
OctantsAt(node) ==
    Tabulate([i \in 1..Len(objectsData) |->
                 octant_index(node, data[objectsData[i]].position,
                              data[objectsData[i]].radius)])

\* the counts expand tallies at a node
CountsAt(node) == OutsideCounts(OctantsAt(node))

\* the selection at a node is the greedy one: three axes, the highest count
\* among them
SelectsGreedily(node) ==
    LET count == CountsAt(node)
        info == ExpandChoice(SortByCount(count))
    IN (\E i \in 1..Len(objectsData) : OctantsAt(node)[i] < -1) =>
          /\ info = Greedy(count, << >>)
          /\ {Axis(info[i]) : i \in 1..3} = {0, 1, 2}
          /\ \E i \in 1..3 : \A k \in 0..5 : count[info[i]] >= count[k]

\* the node the tree started with
Started == OctreeNode(<< >>, <<0, 0, 0>>, RootRadius, NoIndex, NoNode)

\* the parents expand has given the first node: twice its size, overlap
\* included, and one of their corners at the corner of the first node
StartedIn ==
    {p \in 1..Len(nodes) :
        /\ nodes[p].radiusOverlap = 2 * Started.radius
        /\ \A a \in 1..3 :
              Abs(nodes[p].position[a]) = nodes[p].radiusOverlap - Started.radiusOverlap}

\* C31: whenever objects lie outside a node, the three directions expand
\* selects for them are on three distinct axes, are the greedy choice by
\* descending count (ties in the order +X, -X, +Y, -Y, +Z, -Z) and include
\* the direction of the highest count; the parent expand gives the first
\* node lies from it in those three directions
ExpandSelectsGreedily ==
    /\ SelectsGreedily(Started)
    /\ \A n \in 1..Len(nodes) : SelectsGreedily(nodes[n])
    /\ \A p \in StartedIn :
          LET info == Greedy(CountsAt(Started), << >>)
              normal == VecAdd(INDEX_OUTSIDE_MAP[info[1]],
                               VecAdd(INDEX_OUTSIDE_MAP[info[2]],
                                      INDEX_OUTSIDE_MAP[info[3]]))
          IN \A a \in 1..3 : (nodes[p].position[a] > 0) = (normal[a] > 0)

\* the root has expanded for objects that lie in fewer than three
\* directions, two of them opposite
ExpandSelectsCase ==
    /\ calls = 1
    /\ StartedIn # {}
    /\ LET count == CountsAt(Started)
       IN /\ Cardinality({k \in 0..5 : count[k] > 0}) < 3
          /\ \E a \in 0..2 : count[2 * a] > 0 /\ count[2 * a + 1] > 0

(***************************************************************************)
(* Shrinking: merge and contract                                           *)
(***************************************************************************)
\* the nodes remove_object_end takes the descriptors of source s from
RemovedFrom(s) ==
    remove_object_end([State EXCEPT !.ret = [searchComplete |-> FALSE,
                                             nodesRemovedFrom |-> << >>,
                                             objectsDataRemoved |-> << >>]],
                      root, s, FALSE).ret.nodesRemovedFrom

\* node n needs no merge in st: it has left the tree, empty and without
\* children, or it is the root, or its subtree holds the threshold
Settled(st, n) ==
    \/ /\ n \notin Range(Preorder(st.nodes, st.root))
       /\ st.nodes[n].objects = << >>
       /\ st.nodes[n].nodesIndices = << >>
    \/ n = st.root
    \/ object_count_end(st.nodes, n) >= objectsThreshold

\* remove returned st: every node it removed a descriptor from is settled
RemoveSettles(st, removedFrom) ==
    st.err = "" => \A i \in 1..Len(removedFrom) : Settled(st, removedFrom[i])

\* the descriptors reachable from the root of st
InTree(st) == Range(objects_end(st.nodes, st.root))

\* merge of the child of a link into its holder moved the descriptors of
\* the child's subtree into the holder's list
MergeMoved(st, link) ==
    /\ st.err = ""
    /\ Range(objects_end(nodes, nodes[link[1]].nodesByIndex[link[2]]))
           \subseteq Range(st.nodes[link[1]].objects)

\* merge returned st: the tree holds the descriptors it held
MergeKeeps(st) == st.err = "" /\ InTree(st) = InTree(State)

\* the links a merge can be asked for: below the threshold, the child is
\* merged into its holder
Mergeable ==
    {link \in Links : link[2] \in Range(nodes[link[1]].nodesIndices)}

\* C32: after remove returns, every node a descriptor was removed from has
\* left the tree (empty and childless), is the root, or has a subtree of at
\* least objectsThreshold objects; a merge leaves the set of descriptors
\* reachable from the root as it was and puts the moved descriptors in the
\* list of the node merged into.
RemoveMerges ==
    /\ \A s \in Sources :
          IndexOf(objects, s) # 0 => RemoveSettles(remove(State, s, FALSE), RemovedFrom(s))
    /\ \A link \in Mergeable :
          /\ MergeMoved(MergeNode(State, link[1], nodes[link[1]].nodesByIndex[link[2]]), link)
          /\ MergeKeeps(merge(State, link[1], nodes[link[1]].nodesByIndex[link[2]], MaxCallDepth))

\* the keys of nodesByIndex of node n in heap st
Keys(st, n) == {k \in 0..7 : st.nodes[n].nodesByIndex[k] # NoNode}

\* node n lists its children as it keeps them
WellLinked(st, n) ==
    /\ Range(st.nodes[n].nodesIndices) = Keys(st, n)
    /\ Len(st.nodes[n].nodesIndices) = Cardinality(Keys(st, n))
    /\ \A k \in Keys(st, n) :
          /\ st.nodes[st.nodes[n].nodesByIndex[k]].parent = n
          /\ st.nodes[st.nodes[n].nodesByIndex[k]].indexOctant = k

\* the links of heap st: a reachable node, a key and the child kept there
LinksOf(st) ==
    {link \in Range(Preorder(st.nodes, st.root)) \X (0..7) :
        st.nodes[link[1]].nodesByIndex[link[2]] # NoNode}

\* every reachable node of st is well linked, and no node is kept twice
LinksConsistentIn(st) ==
    /\ \A n \in Range(Preorder(st.nodes, st.root)) : WellLinked(st, n)
    /\ \A a \in LinksOf(st), b \in LinksOf(st) :
          st.nodes[a[1]].nodesByIndex[a[2]] = st.nodes[b[1]].nodesByIndex[b[2]] => a = b

\* C37: after any sequence of add, remove and update, every reachable node
\* lists in nodesIndices exactly the keys of nodesByIndex, each once; the
\* child kept at key k has the node as its parent and k as its indexOctant;
\* no node is the child of two nodes (or of one node under two keys).
LinksConsistent == LinksConsistentIn(State)

\* an update whose runs of expand were all on the root leaves st
LinkedOnRoot(st) == (st.err = "" /\ OnRoot(st)) => LinksConsistentIn(st)

\* from consistent links, an update that expands only on the root leaves
\* consistent links
LinksConsistentOnRoot ==
    LinksConsistent => \A w \in Worlds : LinkedOnRoot(update(State, w))

\* RemoveMerges in the states whose links are consistent
RemoveMergesLinked == LinksConsistent => RemoveMerges

\* the children of the root of st
ChildrenOfRoot(st) ==
    {ChildAt(st.nodes, st.root, i) : i \in 1..Len(st.nodes[st.root].nodesIndices)}

\* the largest subtree count among the children of the root of st
HeaviestCount(st) ==
    CHOOSE c \in {object_count_end(st.nodes, n) : n \in ChildrenOfRoot(st)} :
        \A n \in ChildrenOfRoot(st) : object_count_end(st.nodes, n) <= c

\* the root of st needs no contract: it has no children, or at least
\* objectsThreshold objects are outside its heaviest child
ContractStable(st) ==
    st.err = "" =>
        \/ st.nodes[st.root].nodesIndices = << >>
        \/ object_count_end(st.nodes, st.root) - HeaviestCount(st) >= objectsThreshold

\* contract made nodeRoot the root of st and kept the descriptors of the tree
Contracted(st, nodeRoot) ==
    /\ st.err = ""
    /\ st.root = nodeRoot
    /\ InTree(st) = InTree(State)
    /\ object_count_end(nodes, nodeRoot) = HeaviestCount(State)

\* C33: after remove of a registered source returns, the root has no
\* children or holds at least objectsThreshold objects outside its heaviest
\* child; contract keeps the set of descriptors reachable from the root and
\* makes the heaviest child the root.
RemoveContracts ==
    /\ \A s \in Sources :
          IndexOf(objects, s) # 0 => ContractStable(remove(State, s, FALSE))
    /\ nodes[root].nodesIndices # << >> =>
          Contracted(contract(State, root, Heaviest(nodes, root, 1, NoNode, 0)[1]),
                     Heaviest(nodes, root, 1, NoNode, 0)[1])

\* RemoveContracts in the states whose links are consistent
RemoveContractsLinked == LinksConsistent => RemoveContracts

(***************************************************************************)
(* Adding and removing, by source and by descriptor                        *)
(***************************************************************************)
\* the sources of a host that adds and removes: one more than Sources
Entities == 1..(NumSources + 1)

\* octree.remove( objectData ), objectData a registered descriptor
RemoveHandle(d) ==
    /\ d \in Range(objectsData)
    /\ Returns(remove(State, d, TRUE))
    /\ UNCHANGED <<depthMax, objectsThreshold, objectsDeferred>>

NextRemove ==
    \/ \E s \in Entities, withFaces \in BOOLEAN, w \in Placements : Add(s, withFaces, w)
    \/ \E s \in Entities : Remove(s)
    \/ \E d \in DataIds : RemoveHandle(d)

SpecRemove == Init /\ [][NextRemove]_vars

\* the sources that have a descriptor in the registry
Described == {data[objectsData[i]].object : i \in 1..Len(objectsData)}

\* the registered descriptors of source s for sub-part face
DescriptorsOf(s, face) ==
    {i \in 1..Len(objectsData) :
        data[objectsData[i]].object = s /\ data[objectsData[i]].faces = face}

\* C39: after any sequence of add and remove calls, remove with a
\* descriptor of a face-decomposed source included, a source is in the
\* source list exactly when one of its descriptors is in the registry, and
\* no (source, sub-part) pair has two registered descriptors.
SourcesConsistent ==
    /\ Range(objects) = Described
    /\ \A s \in Entities :
          \A face \in {NoFace} \cup (1..Len(FacesOf(s))) :
              Cardinality(DescriptorsOf(s, face)) <= 1

\* the sources of the list are the sources of the registry: no source is
\* listed without a descriptor
SourcesDescribed == Range(objects) \subseteq Described

\* no descriptor is registered for a source that is not listed
DescribedListed == Described \subseteq Range(objects)

\* no (source, sub-part) pair has two registered descriptors
OneDescriptorEach ==
    \A s \in Entities :
        \A face \in {NoFace} \cup (1..Len(FacesOf(s))) :
            Cardinality(DescriptorsOf(s, face)) <= 1

\* RemoveContracts in the states where every listed source has a descriptor
\* reachable from the root
RemoveContractsDescribed ==
    (\A s \in Range(objects) : \E d \in InTree(State) : data[d].object = s)
        => RemoveContracts

(***************************************************************************)
(* A tree that never grows: objectsThreshold <= 0                          *)
(***************************************************************************)
\* the thresholds that switch growth off
FlatThresholds == {-1, 0}

InitFlat ==
    /\ depthMax \in DepthMaxes
    /\ objectsThreshold \in FlatThresholds
    /\ objects = << >>
    /\ objectsData = << >>
    /\ root = 1
    /\ nodes = << OctreeNode(<< >>, <<0, 0, 0>>, RootRadius, NoIndex, NoNode) >>
    /\ data = [d \in DataIds |-> FreeData]
    /\ calls = 0
    /\ objectsDeferred = << >>

SpecFlat == InitFlat /\ [][Next]_vars

\* the call that left st created no node and kept the root
SameRoot(st) == st.err = "" => (st.root = root /\ Len(st.nodes) = Len(nodes))

\* C34: with objectsThreshold <= 0 the tree never grows or shrinks: after
\* any sequence of add, remove and update the root is the node the tree
\* started with, it has no children, and every registered descriptor is in
\* its directObjects.
FlatTree ==
    objectsThreshold <= 0 =>
        /\ nodes[root] = [Started EXCEPT !.objects = nodes[root].objects]
        /\ Range(objectsData) \subseteq Range(nodes[root].objects)
        /\ \A d \in Range(objectsData) : data[d].node = root
        /\ \A s \in Sources, withFaces \in BOOLEAN, w \in Placements :
              SameRoot(add(State, s, withFaces, w))
        /\ \A s \in Sources : SameRoot(remove(State, s, FALSE))
        /\ \A w \in Worlds : SameRoot(update(State, w))

\* a flat root, after the last call the host makes, that holds a descriptor
\* outside its bounds and two descriptors of one octant
FlatTreeCase ==
    /\ objectsThreshold <= 0
    /\ calls = MaxCalls
    /\ \E i \in 1..Len(objectsData) : data[objectsData[i]].indexOctant < -1
    /\ \E i \in 1..Len(objectsData), j \in 1..Len(objectsData) :
          i # j /\ data[objectsData[i]].indexOctant = data[objectsData[j]].indexOctant
                /\ data[objectsData[i]].indexOctant > -1

(***************************************************************************)
(* Search and the root                                                     *)
(***************************************************************************)
RECURSIVE Open(_, _)
\* the nodes a search q walks below node n, n included: the children that
\* meet the query, and below them again
Open(n, q) ==
    {n} \cup UNION {Open(ChildAt(nodes, n, i), q) :
                      i \in {j \in 1..Len(nodes[n].nodesIndices) :
                                Intersects(nodes[ChildAt(nodes, n, j)], q.position,
                                           q.radius, q.direction)}}

\* the search q finds the direct objects of the root first, then those of
\* the nodes it walks
FromRoot(found, q) ==
    /\ Len(found) >= Len(nodes[root].objects)
    /\ SubSeq(found, 1, Len(nodes[root].objects)) = nodes[root].objects
    /\ Range(found) = UNION {Range(nodes[n].objects) : n \in Open(root, q)}

\* C35: a search returns every direct object of the current root whatever
\* its position, radius or direction: the bounds of the root are not tested,
\* only those of its descendants prune the descent.
SearchFromRoot ==
    \A q \in Searches :
        /\ FromRoot(SearchObjects(State, q.position, q.radius, q.direction), q)
        /\ \A d \in Range(nodes[root].objects) :
              \E k \in 1..Len(search_by(State, q.position, q.radius, TRUE, q.direction).ret) :
                 search_by(State, q.position, q.radius, TRUE, q.direction).ret[k].object
                     = data[d].object

\* a sphere and a ray that miss the bounds of the root, a root that lists
\* objects and has children
SearchFromRootCase ==
    /\ nodes[root].objects # << >>
    /\ nodes[root].nodesIndices # << >>
    /\ \E q \in Searches :
          q.direction = NoDirection
          /\ ~Intersects(nodes[root], q.position, q.radius, q.direction)
    /\ \E q \in Searches :
          q.direction # NoDirection
          /\ ~Intersects(nodes[root], q.position, q.radius, q.direction)

(***************************************************************************)
(* Depth                                                                   *)
(***************************************************************************)
\* the depths of heap st: the root has no parent and depth 0, every other
\* reachable node is one deeper than its parent
DepthConsistentIn(st) ==
    /\ st.nodes[st.root].parent = NoNode
    /\ st.nodes[st.root].depth = 0
    /\ \A n \in Range(Preorder(st.nodes, st.root)) \ {st.root} :
          /\ st.nodes[n].parent # NoNode
          /\ st.nodes[n].depth = st.nodes[st.nodes[n].parent].depth + 1

\* C36: after any sequence of add, remove and update, expand and contract
\* included, the root has no parent and depth 0, and every other reachable
\* node has the depth of its parent plus 1.
DepthConsistent == DepthConsistentIn(State)

\* an update whose runs of expand were all on the root leaves st
DepthOnRoot(st) == (st.err = "" /\ OnRoot(st)) => DepthConsistentIn(st)

\* from consistent depths and links, an update that expands only on the
\* root leaves consistent depths
DepthConsistentOnRoot ==
    (DepthConsistent /\ LinksConsistent) => \A w \in Worlds : DepthOnRoot(update(State, w))

(***************************************************************************)
(* The node reference of a descriptor                                      *)
(***************************************************************************)
\* descriptor d of heap st refers to a reachable node that lists it
Referred(st, d) ==
    /\ st.data[d].node # NoNode
    /\ st.data[d].node \in Range(Preorder(st.nodes, st.root))
    /\ d \in Range(st.nodes[st.data[d].node].objects)

\* the references of heap st: every registered descriptor refers to a
\* reachable node that lists it
ReferencesIn(st) == \A d \in Range(st.objectsData) : Referred(st, d)

\* remove returned st: the descriptors it took out of the registry have no
\* node
Unset(st) ==
    st.err = "" => \A d \in Range(objectsData) \ Range(st.objectsData) : st.data[d].node = NoNode

\* C38: after any add, remove or update returns, the node of every
\* registered descriptor is reachable from the root and lists the
\* descriptor, and every descriptor removed from the tree has no node.
BackReferences ==
    /\ ReferencesIn(State)
    /\ \A s \in Sources : Unset(remove(State, s, FALSE))

\* an update whose runs of expand were all on the root leaves st
ReferencesOnRoot(st) == (st.err = "" /\ OnRoot(st)) => ReferencesIn(st)

\* from consistent references and links, an update that expands only on
\* the root leaves consistent references
BackReferencesOnRoot ==
    (BackReferences /\ LinksConsistent)
        => \A w \in Worlds : ReferencesOnRoot(update(State, w))

====
